---- MODULE Spec2Model ----
(***************************************************************************)
(* A model of the grvt-transfer control plane: the rebalance engine        *)
(* (rebalance/services.py), the three-hop transfer flow (flow.py) and the  *)
(* emergency unwind engine (unwind/services.py).                           *)
(*                                                                         *)
(* Money is counted in integer units of 0.25e-6 USDT, so that the halving  *)
(* of the equity gap and the six-decimal wire format of an amount are      *)
(* exact integer operations.  Equities are drawn from even unit counts.    *)
(***************************************************************************)
EXTENDS Integers, Sequences, FiniteSets, TLC

VARIABLES
    \* ---- one rebalance_once call
    trigger,        \* the trigger argument of the call
    pc,             \* position of the call
    eq, mm, avail,  \* the observations eq1/eq2, mm1/mm2, avail1/avail2
    guardReads,     \* re-read rounds made by the zero-equity guard
    delta,          \* eq1 - eq2 at the trigger gate
    src,            \* the source account chosen, or "none"
    amt,            \* transfer_amt
    amountDec,      \* amount_dec received by TransferFlow.execute
    hop,            \* the hop TransferFlow.execute is about to issue, or 0
    hopRes,         \* per hop: "none", "ok" or "fail" (ok1, ok2, ok3)
    hopAck,         \* per hop: result.ack of the response kept in info1..3
    flowOk,         \* ok returned by TransferFlow.execute
    reqLog,         \* the chain's transfer_v1 requests, in order of issue
    sweepLog,       \* the sweep phase's transfer_v1 requests, in order
    alerts,         \* kinds of alert dispatched so far by this call
    action,         \* the action of the result returned, or "none"
    eventSuccess,   \* the "success" field of the event dispatched
    \* ---- one execute_unwind_fixed_size call
    ordPc,          \* "idle", "input" (called) or "done" (returned)
    position,       \* the position argument: account and signed size
    fixed_size,     \* the fixed_size argument
    dry_run,        \* the dry_run argument
    instrument,     \* the exchange's answer to get_instrument_v1
    result,         \* the dict returned, with the order payload built
    \* ---- one check_and_unwind call
    uPc,            \* position of the call
    uDryRun,        \* its dry_run argument
    uEq, uMm,       \* eq1/eq2 and mm1/mm2 as last refreshed
    uPos,           \* positions1/positions2 of the current iteration
    uIter,          \* the loop variable iteration
    uRatio,         \* unwind_ratio of the current iteration
    uBatch,         \* the instruments of batch still to be processed
    uAttempts,      \* execute_unwind_fixed_size calls of this iteration
    uAlerts,        \* kinds of alert dispatched so far by this call
    uProgress,      \* in_progress of the snapshot bus's unwind_progress
    uSlept,         \* the sleeps made so far
    uAction,        \* the action of the dict returned, or "none"
    uCfg,           \* the unwind section of the configuration
    uArgs,          \* eq1/mm1, eq2/mm2 as passed in, and trigger_pct
    uUnmatched,     \* unmatched, as listed in the hedge-mismatch warning
    uSent,          \* how many alerts of each once-only kind were sent
    uFetches,       \* PositionService.get_positions calls made so far
    \* ---- one evaluation of the margin functions
    fnPc,           \* "idle", "input" or "done"
    fnIn,           \* the observations and the configured percentages
    fnOut,          \* what should_trigger, is_recovered and the ratio gave
    \* ---- one RebalanceRunner and its loop thread
    rPc,            \* position of the thread running _run, or "new"
    stop_event,     \* _stop_event is set
    botRunning,     \* the bot supervisor is started
    runtimeRunning, \* "running" of the runtime settings, or "none"
    rTicks,         \* rebalance_once calls started by the loop
    rErrors,        \* rebalance_once calls that raised
    rWarnings,      \* rebalance_error warnings dispatched
    rStopTicks,     \* rTicks when request_stop was first called, or -1
    rStopIter,      \* the unwind iteration at that moment, or -1
    rPrev,          \* position of an earlier loop thread still alive, or "none"
    \* ---- the bot supervisor of one process
    bStarted,       \* _started
    bStop,          \* _stop_event is set
    bWdStop,        \* _watchdog_stop_event is set
    bLock,          \* the lock file: "none", or held by "self" or "other"
    bBeat,          \* age of heartbeat_ts: "fresh", "aging" (> 30 s), "stale"
    bCur,           \* the thread _polling_thread: "none" or its position
    bOld,           \* positions of earlier polling threads still alive
    bWd,            \* the watchdog thread: "none", "wait" or "restart"
    bFaults,        \* stalls and crashes of polling workers so far
    bCalls,         \* start_bot_daemon calls made so far
    bLast,          \* the last start_bot_daemon call: its path and result
    bSupervised,    \* a call returned started = true, and no stop_bot since
    \* ---- the polling loop of the bot
    tPc,            \* the polling loop: "idle", "poll" or "batch"
    tEnv,           \* TELEGRAM_CHAT_ID
    tCfg,           \* chat_id of the configuration
    tOffset,        \* offset of the next getUpdates, -1 for None
    tStored,        \* chat_id of the state file
    tSent,          \* messages sent: the chat and the update answered
    tStatus,        \* updates that had the margin status computed
    tSaved,         \* updates whose chat id was written to the state file
    tAnswered,      \* callback queries answered
    tPending,       \* updates of the batch still to handle
    tHandled,       \* updates handled so far
    tLast,          \* the update handled last
    \* ---- the snapshot bus
    sPc,            \* the rebalance loop: "idle", in a "tick", in its "unwind"
    sTick,          \* ticks started so far
    sObs,           \* the observations fetched last by the loop
    sLastCheck,     \* _last_check_time
    sLastStatus,    \* _last_status
    sView,          \* the view served last
    \* ---- the rebalance alerts
    aCounter,       \* rebalance_alert_counter of alerts/state.json
    aEvents,        \* events with transfer_usdt or success dispatched so far
    aNoops,         \* noop events dispatched so far
    aSent,          \* the transfer events sent to Telegram, by their rank
    aLast,          \* kind of the event dispatched last
    \* ---- the availability alerts
    vNow,           \* time.time(), in seconds
    vLast,          \* avail_alert_last_ts_<label> of alerts/state.json
    vSent,          \* the availability alerts sent: label and time
    vEq,            \* the equities of the last availability check
    vAvail,         \* the available balances of the last availability check
    vOutcome,       \* what the last check did for each label
    \* ---- the funding wallets over the ticks
    kPc,            \* the tick: "idle", "sweepA", "sweepB", "decide" or "chain"
    kFund,          \* the USDT in the funding wallet of each account
    kTicks,         \* rebalance_once calls so far
    kDeposits,      \* the deposits the sweeps of this tick submitted
    \* ---- the unwind progress of the snapshot bus
    gPc,            \* check_and_unwind: "idle", "fetch", "iter" or "final"
    gBus,           \* _unwind_progress of state.py
    gIter,          \* iteration of the loop of check_and_unwind
    gCalls,         \* check_and_unwind calls so far
    gLast,          \* how the last check_and_unwind call ended
    \* ---- one three-hop chain
    hPc,            \* execute: "build", "try" or "done"
    hAmt,           \* amount_dec
    hHop,           \* the hop execute is at, 0 when it has returned
    hAtt,           \* attempt of try_transfer
    hSigs,          \* requests signed by build_req so far
    hReq,           \* the request try_transfer was handed
    hLog,           \* the requests submitted to transfer_v1, in order
    \* ---- the bot state file
    fPc,            \* the polling worker: "poll" or "batch"
    fEnv,           \* TELEGRAM_CHAT_ID, or "none"
    fFile,          \* the fields of the bot state file
    fPending,       \* updates of the batch still to handle
    fBeatWritten,   \* the worker has written heartbeat_ts
    fMissed         \* _heartbeat_stale found no heartbeat_ts after that

rebVars == <<trigger, pc, eq, mm, avail, guardReads, delta, src,
             amt, amountDec, hop, hopRes, hopAck, flowOk, reqLog,
             sweepLog, alerts, action, eventSuccess>>

ordVars == <<ordPc, position, fixed_size, dry_run, instrument, result>>

unwVars == <<uPc, uDryRun, uEq, uMm, uPos, uIter, uRatio, uBatch, uAttempts,
             uAlerts, uProgress, uSlept, uAction, uCfg, uArgs, uUnmatched,
             uSent, uFetches>>

fnVars == <<fnPc, fnIn, fnOut>>

runVars == <<rPc, stop_event, botRunning, runtimeRunning, rTicks, rErrors,
             rWarnings, rStopTicks, rStopIter, rPrev>>

supVars == <<bStarted, bStop, bWdStop, bLock, bBeat, bCur, bOld, bWd, bFaults,
             bCalls, bLast, bSupervised>>

pollVars == <<tPc, tEnv, tCfg, tOffset, tStored, tSent, tStatus, tSaved, tAnswered, tPending, tHandled, tLast>>

snapVars == <<sPc, sTick, sObs, sLastCheck, sLastStatus, sView>>

alertVars == <<aCounter, aEvents, aNoops, aSent, aLast>>

availVars == <<vNow, vLast, vSent, vEq, vAvail, vOutcome>>

swpVars == <<kPc, kFund, kTicks, kDeposits>>

prgVars == <<gPc, gBus, gIter, gCalls, gLast>>

chnVars == <<hPc, hAmt, hHop, hAtt, hSigs, hReq, hLog>>

stfVars == <<fPc, fEnv, fFile, fPending, fBeatWritten, fMissed>>

vars == <<rebVars, ordVars, unwVars, fnVars, runVars, supVars, pollVars, snapVars, alertVars, availVars, swpVars, prgVars, chnVars, stfVars>>

(* What the actions of one group leave alone *)
othersReb == <<ordVars, unwVars, fnVars, runVars, supVars, pollVars, snapVars, alertVars, availVars, swpVars, prgVars, chnVars, stfVars>>
othersOrd == <<rebVars, unwVars, fnVars, runVars, supVars, pollVars, snapVars, alertVars, availVars, swpVars, prgVars, chnVars, stfVars>>
othersUnw == <<rebVars, ordVars, fnVars, runVars, supVars, pollVars, snapVars, alertVars, availVars, swpVars, prgVars, chnVars, stfVars>>
othersFn == <<rebVars, ordVars, unwVars, runVars, supVars, pollVars, snapVars, alertVars, availVars, swpVars, prgVars, chnVars, stfVars>>
othersRun == <<rebVars, ordVars, unwVars, fnVars, supVars, pollVars, snapVars, alertVars, availVars, swpVars, prgVars, chnVars, stfVars>>
othersSup == <<rebVars, ordVars, unwVars, fnVars, runVars, pollVars, snapVars, alertVars, availVars, swpVars, prgVars, chnVars, stfVars>>
othersPoll == <<rebVars, ordVars, unwVars, fnVars, runVars, supVars, snapVars, alertVars, availVars, swpVars, prgVars, chnVars, stfVars>>
othersSnap == <<rebVars, ordVars, unwVars, fnVars, runVars, supVars, pollVars, alertVars, availVars, swpVars, prgVars, chnVars, stfVars>>
othersAlert == <<rebVars, ordVars, unwVars, fnVars, runVars, supVars, pollVars, snapVars, availVars, swpVars, prgVars, chnVars, stfVars>>
othersAvail == <<rebVars, ordVars, unwVars, fnVars, runVars, supVars, pollVars, snapVars, alertVars, swpVars, prgVars, chnVars, stfVars>>
othersSwp == <<rebVars, ordVars, unwVars, fnVars, runVars, supVars, pollVars, snapVars, alertVars, availVars, prgVars, chnVars, stfVars>>
othersPrg == <<rebVars, ordVars, unwVars, fnVars, runVars, supVars, pollVars, snapVars, alertVars, availVars, swpVars, chnVars, stfVars>>
othersChn == <<rebVars, ordVars, unwVars, fnVars, runVars, supVars, pollVars, snapVars, alertVars, availVars, swpVars, prgVars, stfVars>>
othersStf == <<rebVars, ordVars, unwVars, fnVars, runVars, supVars, pollVars, snapVars, alertVars, availVars, swpVars, prgVars, chnVars>>

-----------------------------------------------------------------------------
(* Bounds of the input sets *)
MaxEq == 3
MaxMm == 3
MaxAvail == 3
MaxTrigger == 2
MaxBal == 2

AtomDecimals == 1
MaxSize == 21
MaxFixed == 11
MaxMinSize == 11

MaxIter == 2
MaxFnEq == 4
MaxFnMm == 5
MaxTicks == 4
MaxFaults == 2
MaxCalls == 3
MaxUid == 2
MaxBatch == 2
MaxUpdates == 2
MaxObs == 3
MaxBusTicks == 3
MaxEvents == 11
MaxNoops == 5
MaxSteps == 4
MaxRepeat == 2
MaxSweepTicks == 3
MaxProgressCalls == 5
MaxProgressIter == 3
PairSmall == 5
PairMinSize == 10
MaxChainAmt == 9
MaxFileBatch == 3
TimeStep == 60
UnwEq == 10
MaxUSize == 2

(* Program constants *)
UnwindPct == 10
max_iterations == 999
MinNotional == 100
TargetIters == 5
UnitsPerMicro == 4
Retries == 2
SummaryAttempts == 4
PositionAttempts == 3
AlertEvery == 5
SuppressSeconds == 120
AlertPct == 20
TriggerPct == 60
RecoveryPct == 40
SweepThreshold == 400000

Accts == {"A", "B"}
Other(a) == IF a = "A" THEN "B" ELSE "A"
Hops == 1..3

EqVals == {2 * k : k \in -1..MaxEq}
MmVals == 0..MaxMm
AvailVals == 0..MaxAvail
TriggerVals == {MaxTrigger}
BalVals == {0, SweepThreshold} \cup {SweepThreshold + k : k \in 1..MaxBal}

Abs(x) == IF x < 0 THEN -x ELSE x
Min2(a, b) == IF a <= b THEN a ELSE b
Min3(a, b, c) == Min2(a, Min2(b, c))

Obs == [eq : EqVals, mm : MmVals, avail : AvailVals]
ZeroObs == [eq |-> 0, mm |-> 0, avail |-> 0]
NoVals == [a \in Accts |-> 0]

(* f"{amount_dec:.6f}": Decimal formatting to six places, ROUND_HALF_EVEN *)
Fmt6(x) ==
    LET q == x \div UnitsPerMicro
        r == x % UnitsPerMicro
    IN  IF 2 * r < UnitsPerMicro THEN q * UnitsPerMicro
        ELSE IF 2 * r > UnitsPerMicro THEN (q + 1) * UnitsPerMicro
        ELSE IF q % 2 = 0 THEN q * UnitsPerMicro
        ELSE (q + 1) * UnitsPerMicro

(* Responses of client.transfer_v1: a response whose result.ack is true, a *)
(* response without ack=true, a GrvtError with code 1006 or status 429,    *)
(* any other GrvtError, a transport exception.                             *)
Resp == {"ack", "noack", "busy", "error", "exception"}

(* The responses a try_transfer call may meet, one per submission *)
Scripts == [1..(Retries + 1) -> Resp]

(* A loop body that retries after every business error *)
TryStep_AnyError(resp, att) ==
    IF resp \in {"exception", "busy", "error"}
    THEN IF att < Retries THEN "retry" ELSE "fail"
    ELSE "ok"

(* One pass of try_transfer's loop body on a response: retry, fail or ok *)
TryStep(resp, att) ==
    IF resp = "exception"
    THEN IF att < Retries THEN "retry" ELSE "fail"
    ELSE IF resp \in {"busy", "error"}
         THEN IF att < Retries /\ resp = "busy" THEN "retry" ELSE "fail"
         ELSE "ok"

(* try_transfer's loop from attempt att on: what it returns (ok, and the  *)
(* ack of the response it returns) and how many requests it has submitted *)
RECURSIVE TryLoop(_, _)
TryLoop(script, att) ==
    LET out == TryStep(script[att + 1], att)
    IN  IF out = "retry"
        THEN TryLoop(script, att + 1)
        ELSE [ok |-> (out = "ok"), ack |-> (script[att + 1] = "ack"), sends |-> att + 1]

(* TransferService.try_transfer(client, req) *)
try_transfer(script) == TryLoop(script, 0)

(* The three requests TransferFlow.execute builds, by hop *)
HopReq(h, s, w) ==
    CASE h = 1 -> [kind |-> "hop", hop |-> 1, amt |-> w,
                   frm |-> <<s, "trading">>, to |-> <<s, "funding">>]
      [] h = 2 -> [kind |-> "hop", hop |-> 2, amt |-> w,
                   frm |-> <<s, "funding">>, to |-> <<Other(s), "funding">>]
      [] h = 3 -> [kind |-> "hop", hop |-> 3, amt |-> w,
                   frm |-> <<Other(s), "funding">>, to |-> <<Other(s), "trading">>]

(* The deposit BalanceSweeper.sweep builds, with the number of times it  *)
(* was submitted                                                           *)
SweepReq(a, w, n) ==
    [kind |-> "sweep", hop |-> 0, amt |-> w, sends |-> n,
     frm |-> <<a, "funding">>, to |-> <<a, "trading">>]

(* UnwindService.should_trigger *)
should_trigger(equity, maint_margin, trigger_pct) ==
    IF equity <= 0 THEN FALSE
    ELSE IF maint_margin <= 0 THEN FALSE
    ELSE IF maint_margin * 100 >= 100 * equity THEN FALSE
    ELSE maint_margin * 100 >= trigger_pct * equity

-----------------------------------------------------------------------------
(* rebalance_once *)

(* SummaryService: a fetch that gave up after its retries on exceptions   *)
(* dispatches a retries_exhausted warning and returns zeros                *)
FetchWarning(warned) == IF warned THEN {"fetch_error"} ELSE {}

RebIdle ==
    /\ pc = "idle"
    /\ eq = NoVals /\ mm = NoVals /\ avail = NoVals
    /\ guardReads = 0
    /\ delta = 0
    /\ src = "none"
    /\ amt = 0
    /\ amountDec = 0
    /\ hop = 0
    /\ hopRes = [h \in Hops |-> "none"]
    /\ hopAck = [h \in Hops |-> FALSE]
    /\ flowOk = FALSE
    /\ reqLog = <<>>
    /\ sweepLog = <<>>
    /\ alerts = {}
    /\ action = "none"
    /\ eventSuccess = FALSE

RebInit == trigger \in TriggerVals /\ RebIdle

RebQuiet == trigger = MaxTrigger /\ RebIdle

(* The control loop calls rebalance_once: a fresh call *)
TickStart ==
    /\ pc \in {"idle", "done"}
    /\ pc' = "sweep1"
    /\ eq' = NoVals /\ mm' = NoVals /\ avail' = NoVals
    /\ guardReads' = 0
    /\ delta' = 0
    /\ src' = "none"
    /\ amt' = 0
    /\ amountDec' = 0
    /\ hop' = 0
    /\ hopRes' = [h \in Hops |-> "none"]
    /\ hopAck' = [h \in Hops |-> FALSE]
    /\ flowOk' = FALSE
    /\ reqLog' = <<>>
    /\ sweepLog' = <<>>
    /\ alerts' = {}
    /\ action' = "none"
    /\ eventSuccess' = FALSE
    /\ trigger' \in TriggerVals
    /\ UNCHANGED othersReb

(* BalanceSweeper.sweep(cfg, threshold): read the funding balance (0     *)
(* when the fetch gave up); above the threshold, deposit the balance into *)
(* the trading account.  rebalance_once ignores the result.               *)
Sweep ==
    /\ pc \in {"sweep1", "sweep2"}
    /\ LET a == IF pc = "sweep1" THEN "A" ELSE "B" IN
       \E bal \in BalVals, warned \in BOOLEAN :
          /\ warned => bal = 0
          /\ alerts' = alerts \cup FetchWarning(warned)
          /\ IF bal <= SweepThreshold
             THEN sweepLog' = sweepLog
             ELSE \E script \in Scripts :
                     sweepLog' = Append(sweepLog,
                         SweepReq(a, Fmt6(bal), try_transfer(script).sends))
    /\ pc' = IF pc = "sweep1" THEN "sweep2" ELSE "observe"
    /\ UNCHANGED <<trigger, eq, mm, avail, guardReads, delta, src,
                   amt, amountDec, hop, hopRes, hopAck, flowOk, reqLog,
                   action, eventSuccess>>
    /\ UNCHANGED othersReb

(* Lines 226-245: pct = avail / eq * 100 when eq > 0; the availability   *)
(* alert of an account is dispatched when pct < alert_pct and eq > 0      *)
AvailAlerts(e, av) ==
    {(IF a = "A" THEN "availability_A" ELSE "availability_B") :
        a \in {b \in Accts : e[b] > 0 /\ av[b] * 100 < AlertPct * e[b]}}

(* Lines 216-247: read both trading summaries (zeros when a fetch gave    *)
(* up), both funding summaries, and dispatch the availability alerts      *)
Observe ==
    /\ pc = "observe"
    /\ \E oA \in Obs, oB \in Obs, warned \in BOOLEAN :
          LET e == [a \in Accts |-> IF a = "A" THEN oA.eq ELSE oB.eq]
              m == [a \in Accts |-> IF a = "A" THEN oA.mm ELSE oB.mm]
              v == [a \in Accts |-> IF a = "A" THEN oA.avail ELSE oB.avail]
          IN  /\ eq' = e /\ mm' = m /\ avail' = v
              /\ alerts' = alerts \cup FetchWarning(warned) \cup AvailAlerts(e, v)
    /\ sweepLog' = <<>>
    /\ pc' = "unwind"
    /\ UNCHANGED <<trigger, guardReads, delta, src, amt, amountDec,
                   hop, hopRes, hopAck, flowOk, reqLog, action,
                   eventSuccess>>
    /\ UNCHANGED othersReb

(* Lines 249-258 and 262-263: the emergency unwind check.  The unwind    *)
(* loop itself is the subject of the unwind engine's own specification    *)
(* (SpecUnwind); here the call returns no_trigger, or runs to its end     *)
(* (its alerts dispatched) and the observations are then read again, or   *)
(* it raises and the exception is caught.                                  *)
UnwindCheck ==
    /\ pc = "unwind"
    /\ \E enabled \in BOOLEAN :
       IF ~enabled
          \/ (~should_trigger(eq["A"], mm["A"], TriggerPct)
              /\ ~should_trigger(eq["B"], mm["B"], TriggerPct))
       THEN /\ pc' = "zero_guard"
            /\ UNCHANGED <<eq, mm, avail, alerts>>
       ELSE /\ alerts' = alerts \cup {"unwind_event"}
            /\ \/ /\ pc' = "refresh"
                  /\ eq' = NoVals /\ mm' = NoVals /\ avail' = NoVals
               \/ /\ pc' = "zero_guard"
                  /\ UNCHANGED <<eq, mm, avail>>
    /\ UNCHANGED <<trigger, guardReads, delta, src, amt, amountDec,
                   hop, hopRes, hopAck, flowOk, reqLog, sweepLog, action,
                   eventSuccess>>
    /\ UNCHANGED othersReb

(* Lines 259-261: refresh balances after unwinding *)
Refresh ==
    /\ pc = "refresh"
    /\ \E oA \in Obs, oB \in Obs, warned \in BOOLEAN :
          /\ warned => oA = ZeroObs \/ oB = ZeroObs
          /\ eq' = [a \in Accts |-> IF a = "A" THEN oA.eq ELSE oB.eq]
          /\ mm' = [a \in Accts |-> IF a = "A" THEN oA.mm ELSE oB.mm]
          /\ avail' = [a \in Accts |-> IF a = "A" THEN oA.avail ELSE oB.avail]
          /\ alerts' = alerts \cup FetchWarning(warned)
    /\ pc' = "zero_guard"
    /\ UNCHANGED <<trigger, guardReads, delta, src, amt, amountDec,
                   hop, hopRes, hopAck, flowOk, reqLog, sweepLog, action,
                   eventSuccess>>
    /\ UNCHANGED othersReb

(* A guard that warns whenever it blocks *)
ZeroWarn_Always(e1, e2) == TRUE

(* Line 283: warn only if one account is zero, not both *)
ZeroWarn(e1, e2) == ~(e1 = 0 /\ e2 = 0)

(* Lines 266-292: the zero-equity guard *)
ZeroGuard ==
    /\ pc = "zero_guard"
    /\ IF eq["A"] = 0 \/ eq["B"] = 0
       THEN \E rA \in EqVals, rB \in EqVals, warned \in BOOLEAN :
              /\ warned => rA = 0 \/ rB = 0
              /\ guardReads' = guardReads + 1
              /\ eq' = [a \in Accts |-> IF a = "A" THEN rA ELSE rB]
              /\ IF rA = 0 \/ rB = 0
                 THEN /\ alerts' = alerts \cup FetchWarning(warned) \cup
                                   (IF ZeroWarn(rA, rB)
                                    THEN {"zero_equity"} ELSE {})
                      /\ action' = "blocked_zero_equity"
                      /\ pc' = "done"
                 ELSE /\ pc' = "gate"
                      /\ UNCHANGED <<alerts, action>>
       ELSE /\ pc' = "gate"
            /\ UNCHANGED <<eq, guardReads, alerts, action>>
    /\ UNCHANGED <<trigger, mm, avail, delta, src, amt, amountDec,
                   hop, hopRes, hopAck, flowOk, reqLog, sweepLog,
                   eventSuccess>>
    /\ UNCHANGED othersReb

(* A gate that lets a gap equal to the trigger through *)
GateNoop_Strict(d, trig) == Abs(d) < trig

(* Line 294: abs(delta) <= trigger *)
GateNoop(d, trig) == Abs(d) <= trig

(* Lines 293-316: the trigger gate *)
Gate ==
    /\ pc = "gate"
    /\ delta' = eq["A"] - eq["B"]
    /\ IF GateNoop(eq["A"] - eq["B"], trigger)
       THEN /\ alerts' = alerts \cup {"rebalance_event"}
            /\ action' = "noop"
            /\ pc' = "done"
       ELSE /\ pc' = "decide"
            /\ UNCHANGED <<alerts, action>>
    /\ UNCHANGED <<trigger, eq, mm, avail, guardReads, src, amt,
                   amountDec, hop, hopRes, hopAck, flowOk, reqLog,
                   sweepLog, eventSuccess>>
    /\ UNCHANGED othersReb

(* A source selection with the accounts swapped *)
SourceOf_Reversed(d) == IF d > 0 THEN "B" ELSE "A"

(* Lines 318-323: the source is the account with the larger equity *)
SourceOf(d) == IF d > 0 THEN "A" ELSE "B"

(* An amount that forgets the maintenance-margin cap *)
TransferAmt_NoMmCap(d, src_avail, src_eq, src_mm) ==
    Min2(Abs(d) \div 2, src_avail)

(* Lines 325-330: transfer_amt; the equities are even unit counts, so the *)
(* halving is exact                                                        *)
TransferAmt(d, src_avail, src_eq, src_mm) ==
    Min3(Abs(d) \div 2, src_avail, src_eq - (src_mm * 2))

(* The two blocks tested in the other order *)
Blocked_AvailFirst(max_by_mm, transfer_amt) ==
    IF transfer_amt <= 0 THEN "blocked_avail"
    ELSE IF max_by_mm <= 0 THEN "blocked_mm"
    ELSE "none"

(* Lines 328-332: the two blocks, in the order the code tests them *)
Blocked(max_by_mm, transfer_amt) ==
    IF max_by_mm <= 0 THEN "blocked_mm"
    ELSE IF transfer_amt <= 0 THEN "blocked_avail"
    ELSE "none"

(* Lines 318-334: source selection, amount, blocked_mm, blocked_avail *)
Decide ==
    /\ pc = "decide"
    /\ LET s == SourceOf(delta)
           max_by_mm == eq[s] - (mm[s] * 2)
           transfer_amt == TransferAmt(delta, avail[s], eq[s], mm[s])
           b == Blocked(max_by_mm, transfer_amt)
       IN  /\ src' = s
           /\ IF b # "none"
              THEN /\ action' = b
                   /\ pc' = "done"
                   /\ UNCHANGED amt
              ELSE /\ amt' = transfer_amt
                   /\ pc' = "decided"
                   /\ UNCHANGED action
    /\ UNCHANGED <<trigger, eq, mm, avail, guardReads, delta,
                   amountDec, hop, hopRes, hopAck, flowOk, reqLog,
                   sweepLog, alerts, eventSuccess>>
    /\ UNCHANGED othersReb

(* Line 336 and flow.py lines 22-73: TransferFlow.execute is entered     *)
(* with (src_cfg, dst_cfg, transfer_amt).  The observations of lines      *)
(* 218-292 are not read again by rebalance_once.                           *)
ExecuteStart ==
    /\ pc = "decided"
    /\ amountDec' = amt
    /\ hop' = 1
    /\ eq' = NoVals /\ mm' = NoVals /\ avail' = NoVals
    /\ pc' = "chain"
    /\ UNCHANGED <<trigger, guardReads, delta, src, amt, hopRes,
                   hopAck, flowOk, reqLog, sweepLog, alerts, action,
                   eventSuccess>>
    /\ UNCHANGED othersReb

(* A flow that goes on to the next hop whatever try_transfer returned *)
NextHop_NoAbort(h, ok) == IF h < 3 THEN h + 1 ELSE 0

(* The hop TransferFlow.execute goes on to when hop h's try_transfer has  *)
(* returned: the next one after ok, none (0: execute returns) otherwise   *)
NextHop(h, ok) == IF ok /\ h < 3 THEN h + 1 ELSE 0

(* flow.py lines 71-104, one hop: build and sign the hop's request, hand  *)
(* it to try_transfer and act on what try_transfer returns                 *)
HopCall ==
    /\ pc = "chain"
    /\ hop \in Hops
    /\ \E script \in Scripts :
          LET r == try_transfer(script)
              nxt == NextHop(hop, r.ok)
          IN
          /\ reqLog' = Append(reqLog, HopReq(hop, src, Fmt6(amountDec)))
          /\ hopRes' = [hopRes EXCEPT ![hop] = IF r.ok THEN "ok" ELSE "fail"]
          /\ hopAck' = [hopAck EXCEPT ![hop] = r.ok /\ r.ack]
          /\ hop' = nxt
          /\ IF nxt # 0
             THEN UNCHANGED <<pc, flowOk>>
             ELSE /\ flowOk' = r.ok
                  /\ pc' = "post"
    /\ UNCHANGED <<trigger, eq, mm, avail, guardReads, delta, src,
                   amt, amountDec, sweepLog, alerts, action, eventSuccess>>
    /\ UNCHANGED othersReb

(* TxUtil.success on the three entries of info *)
SuccessAll(ok, acks) == ok /\ acks[1] /\ acks[2] /\ acks[3]

(* Line 376: the action reported *)
ReportedAction(ok, acks) == IF ok THEN "executed" ELSE "failed"

(* Lines 337-376: warning on failure, post-state refresh, event, result *)
Report ==
    /\ pc = "post"
    /\ \E warned \in BOOLEAN :
          alerts' = alerts \cup (IF ~flowOk THEN {"transfer_failed"} ELSE {})
                           \cup FetchWarning(warned) \cup {"rebalance_event"}
    /\ eventSuccess' = SuccessAll(flowOk, hopAck)
    /\ action' = ReportedAction(flowOk, hopAck)
    /\ pc' = "done"
    /\ UNCHANGED <<trigger, eq, mm, avail, guardReads, delta, src,
                   amt, amountDec, hop, hopRes, hopAck, flowOk, reqLog,
                   sweepLog>>
    /\ UNCHANGED othersReb

-----------------------------------------------------------------------------
(* The unwind engine's order builder.  Sizes are counted in integer atoms  *)
(* of 10^-AtomDecimals of the base asset.                                  *)

Max2(a, b) == IF a >= b THEN a ELSE b

RECURSIVE Pow10(_)
Pow10(n) == IF n <= 0 THEN 1 ELSE 10 * Pow10(n - 1)

BaseDecimals == 0..AtomDecimals
SizeVals == (-MaxSize)..MaxSize
FixedVals == 0..MaxFixed
MinSizeVals == 0..MaxMinSize

(* The answer of get_instrument_v1: an error or empty result, or the      *)
(* instrument with or without its instrument_hash                         *)
InstAnswers == {"ok", "fetch_failed", "no_hash"}
Instruments == [answer : InstAnswers, base_decimals : BaseDecimals,
                min_size : MinSizeVals]

(* The outcome of posting the order to create_order *)
HttpOutcomes == {"200", "rejected", "no_gravity_cookie", "exception"}

(* A rounding that goes up to the next step *)
round_up_to_step(value, step) ==
    IF step <= 0 THEN value
    ELSE ((value + step - 1) \div step) * step

(* UnwindService._round_down_to_step: ROUND_DOWN is towards zero *)
round_down_to_step(value, step) ==
    IF step <= 0 THEN value
    ELSE IF value >= 0 THEN (value \div step) * step
    ELSE -(((-value) \div step) * step)

(* A direction that adds to the position *)
IsBuying_Same(current_size) == current_size > 0

(* Line 523: is_buying = current_size < Decimal("0") *)
IsBuying(current_size) == current_size < 0

(* Line 546: size_step = 1 / 10^base_decimals, in atoms *)
Granule(base_decimals) == Pow10(AtomDecimals - base_decimals)

NoOrder == [built |-> FALSE]

(* UnwindService._build_order_fixed_size: the payload returned, or NoOrder *)
(* where the code returns None                                            *)
build_order_fixed_size(pos, fixed, inst) ==
    IF inst.answer = "fetch_failed" THEN NoOrder
    ELSE
    LET current_size == pos.size
        is_buying == IsBuying(current_size)
        granule == Granule(inst.base_decimals)
        size_step == IF inst.min_size > 0 THEN Max2(granule, inst.min_size)
                     ELSE granule
        min_size == IF inst.min_size > 0 THEN inst.min_size ELSE granule
        max_reduce_size == round_down_to_step(Abs(current_size), size_step)
        rounded == round_down_to_step(fixed, size_step)
        clamped == IF rounded > max_reduce_size THEN max_reduce_size
                   ELSE rounded
        reduce_size == IF clamped < min_size
                       THEN round_down_to_step(min_size, size_step)
                       ELSE clamped
        contract_size == reduce_size \div granule
    IN  IF clamped < min_size /\ max_reduce_size < min_size THEN NoOrder
        ELSE IF reduce_size <= 0 THEN NoOrder
        ELSE IF inst.answer = "no_hash" THEN NoOrder
        ELSE IF contract_size <= 0 THEN NoOrder
        ELSE [built |-> TRUE,
              sub_account_id |-> pos.account,
              is_market |-> TRUE,
              time_in_force |-> "IMMEDIATE_OR_CANCEL",
              post_only |-> FALSE,
              reduce_only |-> TRUE,
              size |-> reduce_size,
              limit_price |-> "None",
              is_buying_asset |-> is_buying,
              signed |-> [subAccountID |-> pos.account,
                          isMarket |-> TRUE,
                          timeInForce |-> 3,
                          postOnly |-> FALSE,
                          reduceOnly |-> TRUE,
                          contractSize |-> contract_size,
                          limitPrice |-> 0,
                          isBuyingContract |-> is_buying]]

(* UnwindService.execute_unwind_fixed_size: the dict returned, with the   *)
(* payload built and whether it was posted                                *)
execute_unwind_fixed_size(pos, fixed, dry, inst, http) ==
    IF dry
    THEN [success |-> TRUE, dry_run |-> TRUE, error |-> "none",
          order |-> NoOrder, posted |-> FALSE]
    ELSE LET order_payload == build_order_fixed_size(pos, fixed, inst)
         IN  IF ~order_payload.built
             THEN [success |-> FALSE, dry_run |-> FALSE,
                   error |-> "failed_to_build_order",
                   order |-> NoOrder, posted |-> FALSE]
             ELSE [success |-> (http = "200"), dry_run |-> FALSE,
                   error |-> (IF http = "200" THEN "none" ELSE http),
                   order |-> order_payload,
                   posted |-> (http \in {"200", "rejected"})]

NoResult == [success |-> FALSE, dry_run |-> FALSE, error |-> "none",
             order |-> NoOrder, posted |-> FALSE]

OrdQuiet ==
    /\ ordPc = "idle"
    /\ position = [account |-> "A", size |-> 0]
    /\ fixed_size = 0
    /\ dry_run = TRUE
    /\ instrument = [answer |-> "ok", base_decimals |-> 0, min_size |-> 0]
    /\ result = NoResult

(* A call of execute_unwind_fixed_size with its arguments and the answer  *)
(* the exchange will give about the instrument                            *)
OrdInit ==
    /\ ordPc = "input"
    /\ position \in [account : Accts, size : SizeVals]
    /\ fixed_size \in FixedVals
    /\ dry_run \in BOOLEAN
    /\ instrument \in Instruments
    /\ result = NoResult

ExecuteUnwindFixedSize ==
    /\ ordPc = "input"
    /\ \E http \in HttpOutcomes :
          result' = execute_unwind_fixed_size(position, fixed_size, dry_run,
                                              instrument, http)
    /\ ordPc' = "done"
    /\ UNCHANGED <<position, fixed_size, dry_run, instrument>>
    /\ UNCHANGED othersOrd

-----------------------------------------------------------------------------
(* The unwind engine's loop, UnwindService.check_and_unwind *)

Insts == {"BTC", "ETH"}
NoPos == [held |-> FALSE, size |-> 0, notional |-> 0, unrealized_pnl |-> 0]
HeldPos == {[held |-> TRUE, size |-> -MaxUSize, notional |-> -MinNotional,
             unrealized_pnl |-> -3],
            [held |-> TRUE, size |-> MaxUSize - 1, notional |-> MinNotional,
             unrealized_pnl |-> 1],
            [held |-> TRUE, size |-> MaxUSize, notional |-> MinNotional - 1,
             unrealized_pnl |-> 5],
            [held |-> TRUE, size |-> 0, notional |-> MinNotional,
             unrealized_pnl |-> 0]}
PosVals == {NoPos} \cup HeldPos
Snapshots == [Accts -> [Insts -> PosVals]]
NoSnapshot == [a \in Accts |-> [i \in Insts |-> NoPos]]

(* Equity and maintenance margin of an account as the summary reports it: *)
(* a failed read, and margin usages of 30, 40, 70 and 90 per cent         *)
UnwObs == {[eq |-> 0, mm |-> 0]} \cup
          {[eq |-> UnwEq, mm |-> (p * UnwEq) \div 100] : p \in {30, 40, 70, 90}}

(* A recovery test that counts the threshold itself as recovered *)
is_recovered_Loose(equity, maint_margin, recovery_pct) ==
    IF equity <= 0 THEN TRUE
    ELSE IF maint_margin <= 0 THEN TRUE
    ELSE maint_margin * 100 <= recovery_pct * equity

(* Lines 143-154 *)
is_recovered(equity, maint_margin, recovery_pct) ==
    IF equity <= 0 THEN TRUE
    ELSE IF maint_margin <= 0 THEN TRUE
    ELSE maint_margin * 100 < recovery_pct * equity

(* Lines 164-178: the instruments of matched *)
match_positions_by_instrument(positions1, positions2) ==
    {i \in Insts : positions1[i].held /\ positions2[i].held}

(* Lines 164-178: the instruments of unmatched *)
unmatched_instruments(positions1, positions2) ==
    {i \in Insts : positions1[i].held # positions2[i].held}

(* A list of unmatched that leaves out what only account B holds *)
unmatched_OnlyA(positions1, positions2) ==
    {[instrument |-> i, has_a |-> TRUE, has_b |-> FALSE] :
        i \in {k \in Insts : positions1[k].held /\ ~positions2[k].held}}

(* Lines 164-178: unmatched, as the warning lists it *)
unmatched(positions1, positions2) ==
    {[instrument |-> i, has_a |-> positions1[i].held,
      has_b |-> positions2[i].held] :
        i \in unmatched_instruments(positions1, positions2)}

(* Fractions are pairs of integers with a positive denominator *)
Frac(n, d) == [num |-> n, den |-> d]
FracLess(x, y) == x.num * y.den < y.num * x.den
FracMin(x, y) == IF FracLess(y, x) THEN y ELSE x
FracMax(x, y) == IF FracLess(x, y) THEN y ELSE x

(* Lines 197-214 *)
calc_unwind_ratio(eq1, mm1, eq2, mm2, recovery_pct, iterations) ==
    LET iters == Max2(1, iterations)
        pct1 == IF eq1 > 0 THEN Frac(mm1 * 100, eq1) ELSE Frac(0, 1)
        pct2 == IF eq2 > 0 THEN Frac(mm2 * 100, eq2) ELSE Frac(0, 1)
        max_pct == FracMax(pct1, pct2)
        excess == Frac(max_pct.num - recovery_pct * max_pct.den, max_pct.den)
        ratio == Frac(excess.num, max_pct.num * iters)
    IN  IF max_pct.num <= 0 THEN Frac(0, 1)
        ELSE IF excess.num <= 0 THEN Frac(0, 1)
        ELSE IF ratio.num <= 0 THEN Frac(0, 1)
        ELSE FracMin(ratio, Frac(1, 1))

(* A cap that is applied whatever its sign *)
max_ratio_of_Plain(unwind_pct) == Frac(unwind_pct, 100)

(* Line 776: max_ratio *)
max_ratio_of(unwind_pct) ==
    IF unwind_pct > 0 THEN Frac(unwind_pct, 100) ELSE Frac(1, 1)

(* Lines 774-777: unwind_ratio from the observations and the configuration *)
unwind_ratio(eq1, mm1, eq2, mm2, recovery_pct, unwind_pct, max_iters) ==
    LET target_iters == IF max_iters > 0
                        THEN Min2(max_iters, TargetIters) ELSE TargetIters
        computed_ratio == calc_unwind_ratio(eq1, mm1, eq2, mm2, recovery_pct,
                                            target_iters)
    IN  FracMin(computed_ratio, max_ratio_of(unwind_pct))

(* Lines 774-777, with the percentages of the default configuration *)
UnwindRatio(eq1, mm1, eq2, mm2) ==
    unwind_ratio(eq1, mm1, eq2, mm2, RecoveryPct, UnwindPct, max_iterations)

(* A batch that keeps the pairs below the notional threshold *)
InBatch_Any(pos1, pos2, min_notional) == TRUE

(* Lines 797-806: the pair passes the notional filter *)
InBatch(pos1, pos2, min_notional) ==
    ~(Min2(Abs(pos1.notional), Abs(pos2.notional)) < min_notional)

(* The orders in which a set of instruments can be listed *)
Orderings(S) ==
    {q \in [1..Cardinality(S) -> S] : \A i \in S : \E k \in DOMAIN q : q[k] = i}

(* Lines 783-794: _combined_pnl_per_notional *)
combined_pnl_per_notional(pos1, pos2) ==
    LET denom == Abs(pos1.notional) + Abs(pos2.notional)
    IN  IF denom <= 0 THEN Frac(0, 1)
        ELSE Frac(Abs(pos1.unrealized_pnl) + Abs(pos2.unrealized_pnl), denom)

(* A batch left in the order in which matched was iterated *)
sorted_batch_Unsorted(batch, snap) == Orderings(batch)

(* Line 808: batch sorted by descending score; pairs of equal score keep  *)
(* the order in which the set of instruments was iterated, which is any   *)
sorted_batch(batch, snap) ==
    {q \in Orderings(batch) :
        \A j \in DOMAIN q, k \in DOMAIN q :
            j < k => ~FracLess(
                        combined_pnl_per_notional(snap["A"][q[j]],
                                                  snap["B"][q[j]]),
                        combined_pnl_per_notional(snap["A"][q[k]],
                                                  snap["B"][q[k]]))}

(* Line 748: both accounts must have recovered; here either would do *)
both_recovered_Either(o1, o2, recovery_pct) ==
    is_recovered(o1.eq, o1.mm, recovery_pct)
        \/ is_recovered(o2.eq, o2.mm, recovery_pct)

(* Lines 715-716 and 748: recovered1 and recovered2 *)
both_recovered(o1, o2, recovery_pct) ==
    is_recovered(o1.eq, o1.mm, recovery_pct)
        /\ is_recovered(o2.eq, o2.mm, recovery_pct)

(* A trigger test that wants both accounts above the threshold *)
either_triggers_Both(o1, o2, trigger_pct) ==
    should_trigger(o1.eq, o1.mm, trigger_pct)
        /\ should_trigger(o2.eq, o2.mm, trigger_pct)

(* Lines 644-647: trigger1 or trigger2 *)
either_triggers(o1, o2, trigger_pct) ==
    should_trigger(o1.eq, o1.mm, trigger_pct)
        \/ should_trigger(o2.eq, o2.mm, trigger_pct)

(* The observations a call can be handed: those of the loop, and an       *)
(* account with no margin, at the trigger threshold, at 100 per cent, and *)
(* with a negative equity                                                 *)
UnwArgObs == UnwObs \cup
             {[eq |-> UnwEq, mm |-> m] :
                 m \in {0, (TriggerPct * UnwEq) \div 100, UnwEq}} \cup
             {[eq |-> -UnwEq, mm |-> UnwEq \div 2]}
TriggerPctVals == {TriggerPct, 100}
UnwArgs == [o1 : UnwArgObs, o2 : UnwArgObs, trigger_pct : TriggerPctVals]
NoArgs == [o1 |-> [eq |-> 0, mm |-> 0], o2 |-> [eq |-> 0, mm |-> 0],
           trigger_pct |-> TriggerPct]

(* unwind.enabled, and an unwind.maxIterations that check_and_unwind does *)
(* not read                                                               *)
UnwCfgs == [enabled : BOOLEAN, maxIterations : {1, max_iterations}]

NoneSent == [triggered |-> 0, mismatch |-> 0, recovery |-> 0, completed |-> 0]

UnwQuiet ==
    /\ uPc = "idle"
    /\ uDryRun = TRUE
    /\ uEq = NoVals /\ uMm = NoVals
    /\ uPos = NoSnapshot
    /\ uIter = 0
    /\ uRatio = Frac(0, 1)
    /\ uBatch = <<>>
    /\ uAttempts = <<>>
    /\ uAlerts = {}
    /\ uProgress = FALSE
    /\ uSlept = 0
    /\ uAction = "none"
    /\ uCfg = [enabled |-> FALSE, maxIterations |-> max_iterations]
    /\ uArgs = NoArgs
    /\ uUnmatched = {}
    /\ uSent = NoneSent
    /\ uFetches = 0

UnwInit ==
    /\ uPc = "call"
    /\ uDryRun \in BOOLEAN
    /\ uEq = NoVals /\ uMm = NoVals
    /\ uPos = NoSnapshot
    /\ uIter = 0
    /\ uRatio = Frac(0, 1)
    /\ uBatch = <<>>
    /\ uAttempts = <<>>
    /\ uAlerts = {}
    /\ uProgress \in BOOLEAN
    /\ uSlept = 0
    /\ uAction = "none"
    /\ uCfg \in UnwCfgs
    /\ uArgs \in UnwArgs
    /\ uUnmatched = {}
    /\ uSent = NoneSent
    /\ uFetches = 0

(* Lines 623-687: the configuration and trigger checks and the alert *)
UnwStart ==
    /\ uPc = "call"
    /\ IF ~uCfg.enabled
       THEN /\ uAction' = "disabled"
            /\ uPc' = "done"
            /\ UNCHANGED <<uAlerts, uProgress, uSent>>
       ELSE IF ~either_triggers(uArgs.o1, uArgs.o2, uArgs.trigger_pct)
       THEN /\ uProgress' = FALSE
            /\ uAction' = "no_trigger"
            /\ uPc' = "done"
            /\ UNCHANGED <<uAlerts, uSent>>
       ELSE /\ uAlerts' = uAlerts \cup {"unwind_triggered"}
            /\ uSent' = [uSent EXCEPT !.triggered = @ + 1]
            /\ uPc' = "fetch"
            /\ UNCHANGED <<uAction, uProgress>>
    /\ UNCHANGED <<uDryRun, uEq, uMm, uPos, uIter, uRatio, uBatch, uAttempts,
                   uSlept, uCfg, uArgs, uUnmatched, uFetches>>
    /\ UNCHANGED othersUnw

(* Lines 689-694: the first fetch of the positions, and their matching; *)
(* eq1, mm1, eq2, mm2 are overwritten by the loop's refresh before they  *)
(* are read again and are dropped here                                   *)
UnwFetch ==
    /\ uPc = "fetch"
    /\ \E snap \in Snapshots :
          /\ uPos' = snap
          /\ uUnmatched' = unmatched(snap["A"], snap["B"])
    /\ uFetches' = uFetches + 2
    /\ uArgs' = NoArgs
    /\ uPc' = "mismatch"
    /\ UNCHANGED <<uDryRun, uEq, uMm, uIter, uRatio, uBatch, uAttempts,
                   uAlerts, uProgress, uSlept, uAction, uCfg, uSent>>
    /\ UNCHANGED othersUnw

(* Lines 695-703: the warning of a hedge mismatch; positions1 and        *)
(* positions2 are fetched again by the loop before they are read again   *)
(* and are dropped here                                                  *)
UnwMismatch ==
    /\ uPc = "mismatch"
    /\ IF uUnmatched # {}
       THEN /\ uAlerts' = uAlerts \cup {"hedge_mismatch"}
            /\ uSent' = [uSent EXCEPT !.mismatch = @ + 1]
       ELSE UNCHANGED <<uAlerts, uSent>>
    /\ uPos' = NoSnapshot
    /\ uPc' = "iter"
    /\ UNCHANGED <<uDryRun, uEq, uMm, uIter, uRatio, uBatch, uAttempts,
                   uProgress, uSlept, uAction, uCfg, uArgs, uUnmatched,
                   uFetches>>
    /\ UNCHANGED othersUnw

(* Where the loop goes after iteration it: the next one, or past the loop *)
AfterIteration(it) == IF it + 1 < max_iterations THEN "iter" ELSE "final"

(* Lines 706-808: the head of one iteration, down to the sorted batch *)
UnwIterate ==
    /\ uPc = "iter"
    /\ uIter < max_iterations
    /\ uIter < MaxIter
    /\ \E o1 \in UnwObs, o2 \in UnwObs, snap \in Snapshots :
          LET ratio == UnwindRatio(o1.eq, o1.mm, o2.eq, o2.mm)
              matched == match_positions_by_instrument(snap["A"], snap["B"])
              batch == {i \in matched :
                           InBatch(snap["A"][i], snap["B"][i], MinNotional)}
              obsEq == [a \in Accts |-> IF a = "A" THEN o1.eq ELSE o2.eq]
              obsMm == [a \in Accts |-> IF a = "A" THEN o1.mm ELSE o2.mm]
          IN  /\ uProgress' = TRUE
              /\ uAttempts' = <<>>
              /\ uFetches' = uFetches + 2
              /\ uUnmatched' = {}
              /\ IF both_recovered(o1, o2, RecoveryPct)
                 THEN /\ uAlerts' = uAlerts \cup {"unwind_recovery"}
                      /\ uSent' = [uSent EXCEPT !.recovery = @ + 1]
                      /\ uPc' = "final"
                      /\ uEq' = obsEq /\ uMm' = obsMm
                      /\ uPos' = NoSnapshot
                      /\ UNCHANGED <<uIter, uRatio, uBatch>>
                 ELSE IF ratio.num <= 0
                 THEN /\ uIter' = uIter + 1
                      /\ uPc' = AfterIteration(uIter)
                      /\ uEq' = NoVals /\ uMm' = NoVals
                      /\ uPos' = NoSnapshot
                      /\ UNCHANGED <<uAlerts, uSent, uRatio, uBatch>>
                 ELSE /\ uEq' = obsEq /\ uMm' = obsMm
                      /\ uPos' = snap
                      /\ uRatio' = ratio
                      /\ uBatch' \in sorted_batch(batch, snap)
                      /\ uPc' = "orders"
                      /\ UNCHANGED <<uAlerts, uSent, uIter>>
    /\ UNCHANGED <<uDryRun, uSlept, uAction, uCfg, uArgs>>
    /\ UNCHANGED othersUnw

(* The record kept of one execute_unwind_fixed_size call *)
Attempt(acct, inst, pos, num, den, ok) ==
    [account |-> acct, instrument |-> inst, position |-> pos,
     fixed_num |-> num, fixed_den |-> den, success |-> ok]

(* Lines 823-859: one element of batch: the order on A, then on B, and the *)
(* alerts of the failures                                                  *)
UnwOrderPair ==
    /\ uPc = "orders"
    /\ uBatch # <<>>
    /\ LET inst == Head(uBatch)
           pos1 == uPos["A"][inst]
           pos2 == uPos["B"][inst]
           base_size == Min2(Abs(pos1.size), Abs(pos2.size))
           num == base_size * uRatio.num
       IN  IF num <= 0
           THEN UNCHANGED <<uAttempts, uAlerts>>
           ELSE \E ok1 \in BOOLEAN, ok2 \in BOOLEAN :
                   /\ uDryRun => ok1 /\ ok2
                   /\ uAttempts' = uAttempts \o
                         <<Attempt("A", inst, pos1, num, uRatio.den, ok1),
                           Attempt("B", inst, pos2, num, uRatio.den, ok2)>>
                   /\ uAlerts' = uAlerts \cup
                         (IF ~uDryRun /\ ~(ok1 /\ ok2)
                          THEN {"unwind_order"} ELSE {})
    /\ uBatch' = Tail(uBatch)
    /\ UNCHANGED <<uPc, uDryRun, uEq, uMm, uPos, uIter, uRatio, uProgress,
                   uSlept, uAction, uCfg, uArgs, uUnmatched, uSent, uFetches>>
    /\ UNCHANGED othersUnw

(* Lines 861-862: the wait that ends an iteration; the next iteration     *)
(* reads everything afresh, so the iteration's locals are dropped here    *)
UnwSleep ==
    /\ uPc = "orders"
    /\ uBatch = <<>>
    /\ uSlept' = IF uIter < max_iterations - 1 THEN uSlept + 1 ELSE uSlept
    /\ uIter' = uIter + 1
    /\ uPc' = AfterIteration(uIter)
    /\ uEq' = NoVals /\ uMm' = NoVals
    /\ uPos' = NoSnapshot
    /\ uRatio' = Frac(0, 1)
    /\ uAttempts' = <<>>
    /\ UNCHANGED <<uDryRun, uBatch, uAlerts, uProgress, uAction, uCfg, uArgs,
                   uUnmatched, uSent, uFetches>>
    /\ UNCHANGED othersUnw

(* Lines 864-918: the summary, its event, and the end of the progress *)
UnwFinish ==
    /\ uPc = "final"
    /\ uAlerts' = uAlerts \cup {"unwind_completed"}
    /\ uSent' = [uSent EXCEPT !.completed = @ + 1]
    /\ uProgress' = FALSE
    /\ uAction' = "unwind_completed"
    /\ uPc' = "done"
    /\ UNCHANGED <<uDryRun, uEq, uMm, uPos, uIter, uRatio, uBatch, uAttempts,
                   uSlept, uCfg, uArgs, uUnmatched, uFetches>>
    /\ UNCHANGED othersUnw

-----------------------------------------------------------------------------
(* The margin functions on their own: should_trigger, is_recovered and the *)
(* unwind ratio, applied to observations and configured percentages        *)

FnObs == [eq : (-1)..MaxFnEq, mm : (-1)..MaxFnMm]
FnObs2 == {o \in FnObs : o.eq \in {0, MaxFnEq} /\ o.mm \in {0, 1, MaxFnMm - 2}}
PctVals == {-125, 0, 40, 50, 60, 100}
UnwindPctVals == {-10, 0, 10, 100, 125}
FnInputs == [o1 : FnObs, o2 : FnObs2, trigger_pct : PctVals,
             recovery_pct : PctVals, unwind_pct : UnwindPctVals]

NoFnOut == [trigger1 |-> FALSE, trigger2 |-> FALSE, recovered1 |-> FALSE,
            recovered2 |-> FALSE, ratio |-> Frac(0, 1)]

FnQuiet ==
    /\ fnPc = "idle"
    /\ fnIn = [o1 |-> [eq |-> 0, mm |-> 0], o2 |-> [eq |-> 0, mm |-> 0],
               trigger_pct |-> TriggerPct, recovery_pct |-> RecoveryPct,
               unwind_pct |-> UnwindPct]
    /\ fnOut = NoFnOut

FnInit ==
    /\ fnPc = "input"
    /\ fnIn \in FnInputs
    /\ fnOut = NoFnOut

(* Lines 643-645, 715-716 and 774-777 of check_and_unwind: the trigger    *)
(* and recovery tests of both accounts and the ratio of the iteration     *)
EvaluateMargins ==
    /\ fnPc = "input"
    /\ fnOut' =
          [trigger1 |-> should_trigger(fnIn.o1.eq, fnIn.o1.mm, fnIn.trigger_pct),
           trigger2 |-> should_trigger(fnIn.o2.eq, fnIn.o2.mm, fnIn.trigger_pct),
           recovered1 |-> is_recovered(fnIn.o1.eq, fnIn.o1.mm, fnIn.recovery_pct),
           recovered2 |-> is_recovered(fnIn.o2.eq, fnIn.o2.mm, fnIn.recovery_pct),
           ratio |-> unwind_ratio(fnIn.o1.eq, fnIn.o1.mm, fnIn.o2.eq, fnIn.o2.mm,
                                  fnIn.recovery_pct, fnIn.unwind_pct,
                                  max_iterations)]
    /\ fnPc' = "done"
    /\ UNCHANGED fnIn
    /\ UNCHANGED othersFn

(* The fetches with retries: trading_summary and funding_usdt_balance of *)
(* the rebalance, get_positions of the unwind. A call of the client      *)
(* returns a result, returns a GrvtError, or raises                      *)
Fetchers == {"trading_summary", "funding_usdt_balance", "get_positions"}
FetchResp == {"result", "error", "exception"}
FetchScripts == [1 .. SummaryAttempts -> FetchResp]

(* Lines 13-43 and 70-103 of rebalance/services.py: the loop from        *)
(* attempt i on. A response that is no exception is returned at once: a  *)
(* GrvtError gives the zero default; after the last exception a warning  *)
(* retries_exhausted is dispatched and the default returned              *)
RECURSIVE summary_fetch(_, _)
summary_fetch(script, i) ==
    IF i >= SummaryAttempts
    THEN [default |-> TRUE, attempts |-> i, warnings |-> 1]
    ELSE IF script[i + 1] = "exception"
    THEN summary_fetch(script, i + 1)
    ELSE [default |-> (script[i + 1] = "error"), attempts |-> i + 1,
          warnings |-> 0]

(* Lines 52-74 of unwind/services.py: get_positions from attempt i on: a *)
(* GrvtError and an exception are retried, and the empty list returned   *)
(* after the last                                                        *)
RECURSIVE get_positions(_, _)
get_positions(script, i) ==
    IF script[i + 1] = "result"
    THEN [default |-> FALSE, attempts |-> i + 1, warnings |-> 0]
    ELSE IF i < PositionAttempts - 1
    THEN get_positions(script, i + 1)
    ELSE [default |-> TRUE, attempts |-> i + 1, warnings |-> 0]

FetchInit ==
    /\ fnPc = "fetch"
    /\ fnIn \in [fetcher : Fetchers, script : FetchScripts]
    /\ fnOut = NoFnOut

(* A call of one of the fetches *)
Fetch ==
    /\ fnPc = "fetch"
    /\ fnOut' = IF fnIn.fetcher = "get_positions"
                THEN get_positions(fnIn.script, 0)
                ELSE summary_fetch(fnIn.script, 0)
    /\ fnPc' = "fetched"
    /\ UNCHANGED fnIn
    /\ UNCHANGED othersFn

(* try_transfer on its own: the responses its submissions will meet *)
TryInit ==
    /\ fnPc = "script"
    /\ fnIn \in Scripts
    /\ fnOut = NoFnOut

(* Lines 164-197: a call of try_transfer *)
TryTransfer ==
    /\ fnPc = "script"
    /\ fnOut' = try_transfer(fnIn)
    /\ fnPc' = "returned"
    /\ UNCHANGED fnIn
    /\ UNCHANGED othersFn

-----------------------------------------------------------------------------
(* RebalanceRunner: start, request_stop, stop and the loop thread _run.   *)
(* The runner is started once: the GUI builds a new runner for every      *)
(* start                                                                  *)

(* Line 49: running() *)
running == rPc \notin {"new", "exited"} /\ ~stop_event

(* An exception that ends the loop *)
after_tick_Raise(raised) == IF raised THEN "exiting" ELSE "wait"

(* Lines 101-117: where the loop is after a tick, raised or not *)
after_tick(raised) == "wait"

(* A wait that always runs to its timeout *)
after_wait_Timeout(stopped) == "loop"

(* Lines 117-118: Event.wait returns at once when the event is set, and   *)
(* the loop breaks; otherwise the timeout elapses                         *)
after_wait(stopped) == IF stopped THEN "exiting" ELSE "loop"

(* The unwind iteration a call is in, if an unwind is in progress *)
UnwindIteration ==
    IF uPc \in {"fetch", "mismatch", "iter", "orders"} THEN uIter ELSE -1

RunInit ==
    /\ rPc = "new"
    /\ stop_event = FALSE
    /\ botRunning = FALSE
    /\ runtimeRunning = "none"
    /\ rTicks = 0
    /\ rErrors = 0
    /\ rWarnings = 0
    /\ rStopTicks = -1
    /\ rStopIter = -1
    /\ rPrev = "none"

(* The loop thread is inside its first rebalance_once call *)
RunInTick ==
    /\ rPc = "tick"
    /\ stop_event = FALSE
    /\ botRunning = TRUE
    /\ runtimeRunning = "true"
    /\ rTicks = 1
    /\ rErrors = 0
    /\ rWarnings = 0
    /\ rStopTicks = -1
    /\ rStopIter = -1
    /\ rPrev = "none"

(* Lines 51-58: start() *)
Start ==
    /\ rPc = "new"
    /\ ~running
    /\ stop_event' = FALSE
    /\ rPc' = "starting"
    /\ rStopTicks' = -1
    /\ rStopIter' = -1
    /\ UNCHANGED <<botRunning, runtimeRunning, rTicks, rErrors, rWarnings>>
    /\ UNCHANGED rPrev
    /\ UNCHANGED othersRun

(* Lines 52-53: start() goes on unless running() *)
may_start == ~running

(* Lines 51-58: start() on a runner whose thread was started before:     *)
(* running() is false as soon as the stop event is set, whether or not   *)
(* the thread has exited; the event is cleared and a new thread started, *)
(* and the earlier thread, if alive, runs on                             *)
Restart ==
    /\ rPc # "new"
    /\ rPrev = "none"
    /\ may_start
    /\ stop_event' = FALSE
    /\ rPrev' = IF rPc = "exited" THEN "none" ELSE rPc
    /\ rPc' = "starting"
    /\ rStopTicks' = -1
    /\ rStopIter' = -1
    /\ UNCHANGED <<botRunning, runtimeRunning, rTicks, rErrors, rWarnings>>
    /\ UNCHANGED othersRun

(* Lines 78-130: one step of the earlier thread, which runs the same     *)
(* _run on the same runner                                               *)
PrevThread ==
    /\ rPrev # "none"
    /\ \/ /\ rPrev = "starting"
          /\ rPrev' = "loop"
          /\ runtimeRunning' = "true"
          /\ botRunning' = TRUE
          /\ UNCHANGED <<rTicks, rErrors, rWarnings>>
       \/ /\ rPrev = "loop"
          /\ IF stop_event
             THEN rPrev' = "exiting" /\ UNCHANGED rTicks
             ELSE /\ rTicks < MaxTicks
                  /\ rPrev' = "tick"
                  /\ rTicks' = rTicks + 1
          /\ UNCHANGED <<botRunning, runtimeRunning, rErrors, rWarnings>>
       \/ /\ rPrev = "tick"
          /\ \E raised \in BOOLEAN :
                /\ rErrors' = IF raised THEN rErrors + 1 ELSE rErrors
                /\ rWarnings' = IF raised THEN rWarnings + 1 ELSE rWarnings
                /\ rPrev' = after_tick(raised)
          /\ UNCHANGED <<botRunning, runtimeRunning, rTicks>>
       \/ /\ rPrev = "wait"
          /\ rPrev' = after_wait(stop_event)
          /\ UNCHANGED <<botRunning, runtimeRunning, rTicks, rErrors,
                         rWarnings>>
       \/ /\ rPrev = "exiting"
          /\ rPrev' = "none"
          /\ botRunning' = FALSE
          /\ runtimeRunning' = "false"
          /\ UNCHANGED <<rTicks, rErrors, rWarnings>>
    /\ UNCHANGED <<rPc, stop_event, rStopTicks, rStopIter>>
    /\ UNCHANGED othersRun

(* Lines 78-97: _run up to the loop *)
RunSetup ==
    /\ rPc = "starting"
    /\ runtimeRunning' = "true"
    /\ botRunning' = TRUE
    /\ rPc' = "loop"
    /\ UNCHANGED <<stop_event, rTicks, rErrors, rWarnings, rStopTicks,
                   rStopIter>>
    /\ UNCHANGED rPrev
    /\ UNCHANGED othersRun

(* Line 100: the test of the while loop, and the start of a tick *)
LoopCheck ==
    /\ rPc = "loop"
    /\ IF stop_event
       THEN /\ rPc' = "exiting"
            /\ UNCHANGED rTicks
       ELSE /\ rTicks < MaxTicks
            /\ rPc' = "tick"
            /\ rTicks' = rTicks + 1
    /\ UNCHANGED <<stop_event, botRunning, runtimeRunning, rErrors, rWarnings,
                   rStopTicks, rStopIter>>
    /\ UNCHANGED rPrev
    /\ UNCHANGED othersRun

(* Lines 101-115: rebalance_once returns or raises *)
Tick ==
    /\ rPc = "tick"
    /\ \E raised \in BOOLEAN :
          /\ rErrors' = IF raised THEN rErrors + 1 ELSE rErrors
          /\ rWarnings' = IF raised THEN rWarnings + 1 ELSE rWarnings
          /\ rPc' = after_tick(raised)
    /\ UNCHANGED <<stop_event, botRunning, runtimeRunning, rTicks, rStopTicks,
                   rStopIter>>
    /\ UNCHANGED rPrev
    /\ UNCHANGED othersRun

(* Lines 117-118: the interval wait *)
Wait ==
    /\ rPc = "wait"
    /\ rPc' = after_wait(stop_event)
    /\ UNCHANGED <<stop_event, botRunning, runtimeRunning, rTicks, rErrors,
                   rWarnings, rStopTicks, rStopIter>>
    /\ UNCHANGED rPrev
    /\ UNCHANGED othersRun

(* Lines 120-130: the end of _run *)
LoopExit ==
    /\ rPc = "exiting"
    /\ botRunning' = FALSE
    /\ runtimeRunning' = "false"
    /\ rPc' = "exited"
    /\ UNCHANGED <<stop_event, rTicks, rErrors, rWarnings, rStopTicks,
                   rStopIter>>
    /\ UNCHANGED rPrev
    /\ UNCHANGED othersRun

(* Lines 60-66: request_stop() *)
RequestStop ==
    /\ stop_event' = TRUE
    /\ botRunning' = FALSE
    /\ IF stop_event
       THEN UNCHANGED <<rStopTicks, rStopIter>>
       ELSE /\ rStopTicks' = rTicks
            /\ rStopIter' = UnwindIteration
    /\ UNCHANGED <<rPc, runtimeRunning, rTicks, rErrors, rWarnings>>
    /\ UNCHANGED rPrev
    /\ UNCHANGED othersRun

(* Lines 68-76: stop(timeout_sec), whose join gives up after the timeout *)
Stop ==
    /\ stop_event' = TRUE
    /\ botRunning' = FALSE
    /\ runtimeRunning' = "false"
    /\ IF stop_event
       THEN UNCHANGED <<rStopTicks, rStopIter>>
       ELSE /\ rStopTicks' = rTicks
            /\ rStopIter' = UnwindIteration
    /\ UNCHANGED <<rPc, rTicks, rErrors, rWarnings>>
    /\ UNCHANGED rPrev
    /\ UNCHANGED othersRun

-----------------------------------------------------------------------------
(* The bot supervisor: start_bot_daemon, stop_bot, the polling workers   *)
(* and the watchdog                                                      *)

(* A polling worker is inside the body of an iteration: in its poll      *)
(* ("loop"), handling an update after _save_chat_id rewrote the state    *)
(* file ("message"), or held up in a call ("stalled"). A new thread      *)
(* passes its first test, the event having just been cleared             *)
WorkerPcs == {"loop", "message", "stalled"}
BeatAges == {"fresh", "aging", "stale"}

NoCall == [path |-> "none", started |-> FALSE, launched |-> 0]

SupQuiet ==
    /\ bStarted = FALSE
    /\ bStop = FALSE
    /\ bWdStop = FALSE
    /\ bLock = "none"
    /\ bBeat = "stale"
    /\ bCur = "none"
    /\ bOld = {}
    /\ bWd = "none"
    /\ bFaults = 0
    /\ bCalls = 0
    /\ bLast = NoCall
    /\ bSupervised = FALSE

(* Lines 661-666: the module as imported; the state directory may hold   *)
(* the lock and the heartbeat of another process                         *)
SupInit ==
    /\ bStarted = FALSE
    /\ bStop = FALSE
    /\ bWdStop = FALSE
    /\ bLock \in {"none", "other"}
    /\ bBeat \in BeatAges
    /\ bCur = "none"
    /\ bOld = {}
    /\ bWd = "none"
    /\ bFaults = 0
    /\ bCalls = 0
    /\ bLast = NoCall
    /\ bSupervised = FALSE

(* The age of the heartbeat 30 s later *)
BeatAges_Next(b) == IF b = "fresh" THEN "aging" ELSE "stale"

(* The earlier threads once _polling_thread is rebound or set to None *)
Retired == IF bCur = "none" THEN bOld ELSE bOld \cup {bCur}

(* Lines 154-162: _heartbeat_stale(30) and _heartbeat_stale(60) *)
heartbeat_stale_30 == bBeat \in {"aging", "stale"}
heartbeat_stale_60 == bBeat = "stale"

(* A lock that the process takes again when the file is its own *)
acquire_lock_Own == bLock # "other"

(* Lines 726-739: _acquire_lock creates the file, and fails if it exists *)
acquire_lock == bLock = "none"

(* Lines 762-765: _started after the reset that allows a restart *)
already_started == bStarted /\ ~bStop

(* Lines 758-804: start_bot_daemon *)
StartBotDaemon ==
    /\ bCalls < MaxCalls
    /\ bCalls' = bCalls + 1
    /\ IF already_started
       THEN /\ bLast' = [path |-> "already", started |-> FALSE, launched |-> 0]
            /\ UNCHANGED <<bStarted, bStop, bWdStop, bLock, bCur, bOld, bWd,
                           bSupervised>>
       ELSE IF acquire_lock
       THEN /\ bLock' = "self"
            /\ bStop' = FALSE
            /\ bOld' = Retired
            /\ bCur' = "loop"
            /\ bWdStop' = FALSE
            /\ bWd' = "wait"
            /\ bStarted' = TRUE
            /\ bSupervised' = TRUE
            /\ bLast' = [path |-> "first", started |-> TRUE, launched |-> 2]
       ELSE IF heartbeat_stale_30
       THEN /\ \E retry_ok \in BOOLEAN :
                  /\ (bLock = "self") => retry_ok
                  /\ bLock' = IF retry_ok THEN "self" ELSE "other"
                  /\ bLast' = [path |-> IF retry_ok THEN "retry_ok"
                                                   ELSE "retry_fail",
                               started |-> FALSE, launched |-> 0]
            /\ bStarted' = TRUE
            /\ UNCHANGED <<bStop, bWdStop, bCur, bOld, bWd, bSupervised>>
       ELSE /\ bStarted' = TRUE
            /\ bLast' = [path |-> "fresh", started |-> FALSE, launched |-> 0]
            /\ UNCHANGED <<bStop, bWdStop, bLock, bCur, bOld, bWd,
                           bSupervised>>
    /\ UNCHANGED <<bBeat, bFaults>>
    /\ UNCHANGED othersSup

(* Lines 807-831: stop_bot. The joins give up after 5 s: a polling       *)
(* worker that has not seen the event by then is left alive; a watchdog  *)
(* in its wait returns at once, and one in the 3 s sleep of a restart    *)
(* ends it within the join: it clears _stop_event and starts a worker    *)
StopBot ==
    /\ bWdStop' = TRUE
    /\ bStop' = IF bWd = "restart" THEN FALSE ELSE TRUE
    /\ bOld' = IF bWd = "restart" THEN Retired \cup {"loop"} ELSE Retired
    /\ bCur' = "none"
    /\ bWd' = "none"
    /\ bStarted' = FALSE
    /\ bLock' = IF bLock = "self" THEN "none" ELSE bLock
    /\ bSupervised' = FALSE
    /\ UNCHANGED <<bBeat, bFaults, bCalls, bLast>>
    /\ UNCHANGED othersSup

(* Line 603: the test that follows the body of an iteration: a worker    *)
(* that finds the stop event set ends, the others poll again             *)
after_test == IF bStop THEN "none" ELSE "loop"

(* Lines 603-658: the current polling worker ends an iteration: the      *)
(* heartbeat, the sleep, and the test of the stop event                  *)
WorkerIterate ==
    /\ bCur = "loop"
    /\ bBeat' = "fresh"
    /\ bCur' = after_test
    /\ UNCHANGED <<bStarted, bStop, bWdStop, bLock, bOld, bWd, bFaults,
                   bCalls, bLast, bSupervised>>
    /\ UNCHANGED othersSup

(* Lines 654-655 and 143-151: an iteration whose _save_state fails: the  *)
(* error is swallowed and no heartbeat is written                        *)
WorkerSaveFail ==
    /\ bCur = "loop"
    /\ bFaults < MaxFaults
    /\ bFaults' = bFaults + 1
    /\ bBeat' = BeatAges_Next(bBeat)
    /\ bCur' = after_test
    /\ UNCHANGED <<bStarted, bStop, bWdStop, bLock, bOld, bWd, bCalls, bLast,
                   bSupervised>>
    /\ UNCHANGED othersSup

(* Lines 620-625 and 120-129: an update with a chat id is being handled: *)
(* _save_chat_id rewrote the state file with the chat id alone, so       *)
(* heartbeat_ts is missing until the end of the batch                    *)
WorkerMessage ==
    /\ bCur = "loop"
    /\ bCur' = "message"
    /\ bBeat' = "stale"
    /\ UNCHANGED <<bStarted, bStop, bWdStop, bLock, bOld, bWd, bFaults,
                   bCalls, bLast, bSupervised>>
    /\ UNCHANGED othersSup

(* Lines 654-658 and 603: the end of the batch: the heartbeat, the       *)
(* sleep, and the test of the stop event                                 *)
WorkerBatchEnd ==
    /\ bCur = "message"
    /\ bBeat' = "fresh"
    /\ bCur' = after_test
    /\ UNCHANGED <<bStarted, bStop, bWdStop, bLock, bOld, bWd, bFaults,
                   bCalls, bLast, bSupervised>>
    /\ UNCHANGED othersSup

(* A call of the body does not return for long (lines 231-250: the long  *)
(* poll, lines 301-590: the status computation)                          *)
WorkerStall ==
    /\ bCur \in {"loop", "message"}
    /\ bFaults < MaxFaults
    /\ bFaults' = bFaults + 1
    /\ bCur' = "stalled"
    /\ UNCHANGED <<bStarted, bStop, bWdStop, bLock, bBeat, bOld, bWd, bCalls,
                   bLast, bSupervised>>
    /\ UNCHANGED othersSup

(* The call returns and the iteration ends as any other *)
WorkerResume ==
    /\ bCur = "stalled"
    /\ bBeat' = "fresh"
    /\ bCur' = after_test
    /\ UNCHANGED <<bStarted, bStop, bWdStop, bLock, bOld, bWd, bFaults,
                   bCalls, bLast, bSupervised>>
    /\ UNCHANGED othersSup

(* Lines 613-653: an exception of the body outside its try blocks ends   *)
(* the thread                                                            *)
WorkerCrash ==
    /\ bCur \in {"loop", "message"}
    /\ bFaults < MaxFaults
    /\ bFaults' = bFaults + 1
    /\ bCur' = "none"
    /\ UNCHANGED <<bStarted, bStop, bWdStop, bLock, bBeat, bOld, bWd, bCalls,
                   bLast, bSupervised>>
    /\ UNCHANGED othersSup

(* What is left of the earlier polling threads when one at position p   *)
(* moves on: there may be several at the same position                   *)
OldAfter(p) == {bOld, bOld \ {p}}

(* Where an earlier polling thread is after the test of the stop event *)
OldTested == IF bStop THEN {} ELSE {"loop"}

(* Lines 603-658: an earlier polling thread that is still alive ends an  *)
(* iteration                                                             *)
OldWorkerIterate ==
    /\ "loop" \in bOld
    /\ bBeat' = "fresh"
    /\ \E rest \in OldAfter("loop") : bOld' = rest \cup OldTested
    /\ UNCHANGED <<bStarted, bStop, bWdStop, bLock, bCur, bWd, bFaults, bCalls,
                   bLast, bSupervised>>
    /\ UNCHANGED othersSup

(* Lines 620-625 and 120-129: an earlier polling thread handles an       *)
(* update with a chat id                                                 *)
OldWorkerMessage ==
    /\ "loop" \in bOld
    /\ \E rest \in OldAfter("loop") : bOld' = rest \cup {"message"}
    /\ bBeat' = "stale"
    /\ UNCHANGED <<bStarted, bStop, bWdStop, bLock, bCur, bWd, bFaults, bCalls,
                   bLast, bSupervised>>
    /\ UNCHANGED othersSup

(* Lines 654-658 and 603: the end of the batch in an earlier thread *)
OldWorkerBatchEnd ==
    /\ "message" \in bOld
    /\ \E rest \in OldAfter("message") : bOld' = rest \cup OldTested
    /\ bBeat' = "fresh"
    /\ UNCHANGED <<bStarted, bStop, bWdStop, bLock, bCur, bWd, bFaults, bCalls,
                   bLast, bSupervised>>
    /\ UNCHANGED othersSup

(* The call that held up an earlier polling thread returns *)
OldWorkerResume ==
    /\ "stalled" \in bOld
    /\ \E rest \in OldAfter("stalled") : bOld' = rest \cup OldTested
    /\ bBeat' = "fresh"
    /\ UNCHANGED <<bStarted, bStop, bWdStop, bLock, bCur, bWd, bFaults, bCalls,
                   bLast, bSupervised>>
    /\ UNCHANGED othersSup

(* 30 s pass without a heartbeat being written: no worker is in its poll, *)
(* and the watchdog is not in the 3 s sleep of a restart                 *)
HeartbeatAges ==
    /\ bBeat # "stale"
    /\ bWd # "restart"
    /\ bCur # "loop"
    /\ "loop" \notin bOld
    /\ bBeat' = BeatAges_Next(bBeat)
    /\ UNCHANGED <<bStarted, bStop, bWdStop, bLock, bCur, bOld, bWd, bFaults,
                   bCalls, bLast, bSupervised>>
    /\ UNCHANGED othersSup

(* A watchdog that never looks at the polling thread *)
needs_restart_BeatOnly == FALSE

(* Line 692: the polling thread is missing or dead *)
needs_restart == bCur = "none"

(* Lines 685-709: one check of the watchdog after its wait *)
WatchdogCheck ==
    /\ bWd = "wait"
    /\ IF bWdStop
       THEN /\ bWd' = "none"
            /\ UNCHANGED <<bStop, bCur, bOld>>
       ELSE IF needs_restart
       THEN /\ bStop' = FALSE
            /\ bOld' = Retired
            /\ bCur' = "loop"
            /\ UNCHANGED bWd
       ELSE IF heartbeat_stale_60
       THEN /\ bStop' = TRUE
            /\ bWd' = "restart"
            /\ UNCHANGED <<bCur, bOld>>
       ELSE UNCHANGED <<bStop, bCur, bOld, bWd>>
    /\ UNCHANGED <<bStarted, bWdStop, bLock, bBeat, bFaults, bCalls, bLast,
                   bSupervised>>
    /\ UNCHANGED othersSup

(* Lines 707-710: the end of the 3 s sleep: the event is cleared and a   *)
(* new polling thread started                                            *)
WatchdogRestart ==
    /\ bWd = "restart"
    /\ bStop' = FALSE
    /\ bOld' = Retired
    /\ bCur' = "loop"
    /\ bWd' = "wait"
    /\ UNCHANGED <<bStarted, bWdStop, bLock, bBeat, bFaults, bCalls, bLast,
                   bSupervised>>
    /\ UNCHANGED othersSup

-----------------------------------------------------------------------------
(* The polling loop's handling of the updates of a batch                 *)

(* Chat ids: "none" is a missing id or an unset variable, "A" the chat   *)
(* of the operator, "B" another chat                                     *)
ChatIds == {"A", "B"}
UpdateIds == 0 .. MaxUid

(* An update holds a message or a callback query; data is the text of    *)
(* the message or the data of the callback query; update_id 0 is a       *)
(* missing one                                                           *)
Updates ==
    [update_id : UpdateIds, kind : {"message"}, cid : ChatIds \cup {"none"},
     data : {"/start", "/view", "other"}]
    \cup
    [update_id : UpdateIds, kind : {"callback_query"},
     cid : ChatIds \cup {"none"}, data : {"view_noop", "other"}]

NoUpdate == [update_id |-> 0, kind |-> "none", cid |-> "none", data |-> "none"]

PollQuiet ==
    /\ tPc = "idle"
    /\ tEnv = "none"
    /\ tCfg = "none"
    /\ tOffset = -1
    /\ tStored = "none"
    /\ tSent = {}
    /\ tStatus = {}
    /\ tSaved = {}
    /\ tAnswered = {}
    /\ tPending = 0
    /\ tHandled = 0
    /\ tLast = NoUpdate

(* Lines 592-602: the polling thread starts with no offset; the          *)
(* environment, the configuration and the state file are what they are   *)
PollInit ==
    /\ tPc = "poll"
    /\ tEnv \in {"none", "A"}
    /\ tCfg \in {"none", "B"}
    /\ tOffset = -1
    /\ tStored \in ChatIds \cup {"none"}
    /\ tSent = {}
    /\ tStatus = {}
    /\ tSaved = {}
    /\ tAnswered = {}
    /\ tPending = 0
    /\ tHandled = 0
    /\ tLast = NoUpdate

(* Lines 99-117: _get_chat_id: the environment, then the configuration,  *)
(* then the state file                                                   *)
get_chat_id(stored) ==
    IF tEnv # "none" THEN tEnv ELSE IF tCfg # "none" THEN tCfg ELSE stored

(* A filter that lets every chat through *)
rejected_Never(cid) == FALSE

(* Lines 623-624 and 642-643: the update comes from a chat other than    *)
(* the one of TELEGRAM_CHAT_ID                                           *)
rejected(cid) == cid # "none" /\ tEnv # "none" /\ cid # tEnv

(* Lines 120-129: _save_chat_id writes the id unless TELEGRAM_CHAT_ID    *)
(* names another chat                                                    *)
saves_chat_id(cid) == ~(tEnv # "none" /\ cid # tEnv)

(* Lines 187-190: send_message resolves the chat id, and sends nothing   *)
(* without one                                                           *)
resolved_chat_id(cid, stored) == IF cid # "none" THEN cid ELSE get_chat_id(stored)

(* Lines 627-630 and 646-647: the updates that are answered, and those   *)
(* answered with the margin status                                       *)
wants_status(u) ==
    \/ u.kind = "message" /\ u.data = "/view"
    \/ u.kind = "callback_query" /\ u.data = "view_noop"

wants_reply(u) == wants_status(u) \/ (u.kind = "message" /\ u.data = "/start")

(* Lines 603-612: _get_updates returns a batch *)
PollBatch ==
    /\ tPc = "poll"
    /\ tHandled < MaxUpdates
    /\ \E n \in 0 .. MaxBatch :
          /\ tHandled + n <= MaxUpdates
          /\ tPending' = n
    /\ tPc' = "batch"
    /\ UNCHANGED <<tEnv, tCfg, tOffset, tStored, tSent, tStatus, tSaved,
                   tAnswered, tHandled, tLast>>
    /\ UNCHANGED othersPoll

(* Lines 613-653: one update of the batch *)
HandleUpdate ==
    /\ tPc = "batch"
    /\ tPending > 0
    /\ tPending' = tPending - 1
    /\ tHandled' = tHandled + 1
    /\ \E u \in Updates :
          LET stored1 == IF u.cid # "none" /\ saves_chat_id(u.cid)
                         THEN u.cid ELSE tStored
              to == resolved_chat_id(u.cid, stored1)
              sends == wants_reply(u) /\ to # "none"
          IN  /\ tLast' = u
              /\ tOffset' = IF u.update_id # 0 THEN u.update_id + 1 ELSE tOffset
              /\ IF rejected(u.cid)
                 THEN UNCHANGED <<tStored, tSent, tStatus, tSaved, tAnswered>>
                 ELSE /\ tStored' = stored1
                      /\ tSaved' = IF u.cid # "none" /\ saves_chat_id(u.cid)
                                   THEN tSaved \cup {u} ELSE tSaved
                      /\ tStatus' = IF wants_status(u)
                                    THEN tStatus \cup {u} ELSE tStatus
                      /\ tSent' = IF sends
                                  THEN tSent \cup {[to |-> to, update |-> u]}
                                  ELSE tSent
                      /\ tAnswered' = IF u.kind = "callback_query"
                                         /\ u.data = "view_noop"
                                      THEN tAnswered \cup {u} ELSE tAnswered
    /\ UNCHANGED <<tPc, tEnv, tCfg>>
    /\ UNCHANGED othersPoll

(* Lines 654-658: the end of the batch: _save_state stores the heartbeat *)
(* and the chat id _get_chat_id gives                                    *)
BatchEnd ==
    /\ tPc = "batch"
    /\ tPending = 0
    /\ tStored' = get_chat_id(tStored)
    /\ tPc' = "poll"
    /\ UNCHANGED <<tEnv, tCfg, tOffset, tSent, tStatus, tSaved, tAnswered,
                   tPending, tHandled, tLast>>
    /\ UNCHANGED othersPoll

-----------------------------------------------------------------------------
(* The snapshot bus of state.py, its writers and the view of the bot     *)

(* The observations of a fetch, as a whole; times are the tick they fall *)
(* in                                                                    *)
ObsVals == 1 .. MaxObs
NoStatus == [tick |-> 0, obs |-> 0]
NoView == [source |-> "none", time |-> 0, obs |-> 0, tick |-> 0,
           idle |-> FALSE, last_obs |-> 0]

SnapQuiet ==
    /\ sPc = "off"
    /\ sTick = 0
    /\ sObs = 0
    /\ sLastCheck = 0
    /\ sLastStatus = NoStatus
    /\ sView = NoView

(* Lines 7-10 of state.py: the bus of a process that has run no tick *)
SnapInit ==
    /\ sPc = "idle"
    /\ sTick = 0
    /\ sObs = 0
    /\ sLastCheck = 0
    /\ sLastStatus = NoStatus
    /\ sView = NoView

(* Lines 206-220 of rebalance/services.py: a tick fetches both trading   *)
(* summaries and publishes last_check_time                               *)
SnapTickStart ==
    /\ sPc = "idle"
    /\ sTick < MaxBusTicks
    /\ sTick' = sTick + 1
    /\ sObs' \in ObsVals
    /\ sLastCheck' = sTick + 1
    /\ sPc' = "tick"
    /\ UNCHANGED <<sLastStatus, sView>>
    /\ UNCHANGED othersSnap

(* Lines 689-746 of unwind/services.py: an iteration of the unwind run   *)
(* by the tick fetches the summaries again and publishes last_check_time *)
(* and last_status                                                       *)
SnapUnwindIteration ==
    /\ sPc \in {"tick", "unwind"}
    /\ \E o \in ObsVals :
          /\ sObs' = o
          /\ sLastStatus' = [tick |-> sTick, obs |-> o]
    /\ sLastCheck' = sTick
    /\ sPc' = "unwind"
    /\ UNCHANGED <<sTick, sView>>
    /\ UNCHANGED othersSnap

(* Lines 249-376 of rebalance/services.py: the rest of the tick: after   *)
(* an unwind the summaries are fetched again; the tick returns noop,     *)
(* executed, failed or blocked and publishes nothing more                *)
SnapTickEnd ==
    /\ sPc \in {"tick", "unwind"}
    /\ sObs' \in IF sPc = "unwind" THEN ObsVals ELSE {sObs}
    /\ sPc' = "idle"
    /\ UNCHANGED <<sTick, sLastCheck, sLastStatus, sView>>
    /\ UNCHANGED othersSnap

(* Lines 353-443 of telegram_bot.py: a view is served from last_status   *)
(* and last_check_time when there is a last_status, and from a fetch of  *)
(* its own otherwise                                                     *)
SnapView ==
    /\ sPc # "off"
    /\ \E live \in ObsVals :
          sView' = IF sLastStatus # NoStatus
                   THEN [source |-> "snapshot", time |-> sLastCheck,
                         obs |-> sLastStatus.obs, tick |-> sTick,
                         idle |-> (sPc = "idle"), last_obs |-> sObs]
                   ELSE [source |-> "live", time |-> sTick, obs |-> live,
                         tick |-> sTick, idle |-> (sPc = "idle"),
                         last_obs |-> sObs]
    /\ UNCHANGED <<sPc, sTick, sObs, sLastCheck, sLastStatus>>
    /\ UNCHANGED othersSnap

-----------------------------------------------------------------------------
(* AlertService.dispatch_rebalance_event and its persisted counter       *)

(* The events rebalance_once dispatches: the line of a noop tick, and    *)
(* the line of a transfer, which carries transfer_usdt and success       *)
EventKinds == {"noop", "executed", "failed"}

AlertQuiet ==
    /\ aCounter = 0
    /\ aEvents = 0
    /\ aNoops = 0
    /\ aSent = {}
    /\ aLast = "off"

(* Lines 34-47 of alerts/services.py: no state file yet *)
AlertInit ==
    /\ aCounter = 0
    /\ aEvents = 0
    /\ aNoops = 0
    /\ aSent = {}
    /\ aLast = "none"

(* A dispatch that counts every event *)
counts_event_All(kind) == TRUE

(* Line 14: the event carries transfer_usdt or success *)
counts_event(kind) == kind \in {"executed", "failed"}

(* Line 18: the counter that makes the event be sent *)
is_sent(cnt) == cnt % AlertEvery = 0

(* Lines 8-22: dispatch_rebalance_event *)
DispatchRebalanceEvent ==
    /\ aLast # "off"
    /\ \E kind \in EventKinds :
          /\ aLast' = kind
          /\ IF kind = "noop"
             THEN aNoops < MaxNoops /\ aNoops' = aNoops + 1 /\ UNCHANGED aEvents
             ELSE aEvents < MaxEvents /\ aEvents' = aEvents + 1 /\ UNCHANGED aNoops
          /\ IF counts_event(kind)
             THEN /\ aCounter' = aCounter + 1
                  /\ aSent' = IF is_sent(aCounter + 1)
                              THEN aSent \cup {aEvents'} ELSE aSent
             ELSE UNCHANGED <<aCounter, aSent>>
    /\ UNCHANGED othersAlert

-----------------------------------------------------------------------------
(* AlertService.dispatch_availability_alert and its suppression window,  *)
(* as rebalance_once calls it for both accounts                          *)

(* The clock advances in steps; it starts far from the epoch, so that a  *)
(* missing avail_alert_last_ts (0) is older than the window              *)
Times == {SuppressSeconds + k * TimeStep : k \in 0 .. MaxSteps}

(* The equity and the available balance of an account in a tick *)
AvailObs == [eq : {0, 10}, avail : {1, 2}]

NoOutcome == [a \in Accts |-> "none"]
NoAvail == [a \in Accts |-> 0]

AvailQuiet ==
    /\ vNow = 0
    /\ vLast = NoAvail
    /\ vSent = {}
    /\ vEq = NoAvail
    /\ vAvail = NoAvail
    /\ vOutcome = NoOutcome

(* Lines 34-47 of alerts/services.py: no state file yet *)
AvailInit ==
    /\ vNow = SuppressSeconds
    /\ vLast = NoAvail
    /\ vSent = {}
    /\ vEq = NoAvail
    /\ vAvail = NoAvail
    /\ vOutcome = NoOutcome

(* A key shared by both accounts *)
alert_key_Shared(label) == "A"

(* Line 65: key = avail_alert_last_ts_<label> *)
alert_key(label) == label

(* Lines 66-69: the last alert of the key is less than suppress_seconds  *)
(* old                                                                   *)
suppressed(last, label) == (vNow - last[alert_key(label)]) < SuppressSeconds

(* Lines 60-83: dispatch_availability_alert for one label on the state   *)
(* file last, with the outcome ok of send_message: the outcome and the   *)
(* state file afterwards                                                 *)
dispatch_availability_alert(last, label, ok) ==
    IF suppressed(last, label)
    THEN [outcome |-> "suppressed", last |-> last]
    ELSE IF ok
    THEN [outcome |-> "sent",
          last |-> [last EXCEPT ![alert_key(label)] = vNow]]
    ELSE [outcome |-> "failed", last |-> last]

(* Lines 226-247 of rebalance/services.py: the alerts of a tick: account *)
(* A, then account B, each when its available balance is low             *)
AvailabilityCheck ==
    /\ vNow >= SuppressSeconds
    /\ \E oA \in AvailObs, oB \in AvailObs, okA \in BOOLEAN, okB \in BOOLEAN :
          LET e == [a \in Accts |-> IF a = "A" THEN oA.eq ELSE oB.eq]
              v == [a \in Accts |-> IF a = "A" THEN oA.avail ELSE oB.avail]
              low == AvailAlerts(e, v)
              rA == IF "availability_A" \in low
                    THEN dispatch_availability_alert(vLast, "A", okA)
                    ELSE [outcome |-> "none", last |-> vLast]
              rB == IF "availability_B" \in low
                    THEN dispatch_availability_alert(rA.last, "B", okB)
                    ELSE [outcome |-> "none", last |-> rA.last]
          IN  /\ vEq' = e
              /\ vAvail' = v
              /\ vOutcome' = [a \in Accts |-> IF a = "A" THEN rA.outcome
                                                        ELSE rB.outcome]
              /\ vLast' = rB.last
              /\ vSent' = vSent
                    \cup {[label |-> a, ts |-> vNow] :
                            a \in {b \in Accts :
                                     (IF b = "A" THEN rA.outcome
                                                 ELSE rB.outcome) = "sent"}}
    /\ UNCHANGED vNow
    /\ UNCHANGED othersAvail

(* Lines 117-118 of runner.py: time passes between the ticks *)
ClockAdvances ==
    /\ vNow >= SuppressSeconds
    /\ vNow + TimeStep \in Times
    /\ vNow' = vNow + TimeStep
    /\ vOutcome' = NoOutcome
    /\ UNCHANGED <<vLast, vSent, vEq, vAvail>>
    /\ UNCHANGED othersAvail

-----------------------------------------------------------------------------
(* The funding wallets over the ticks: what a failed chain leaves in     *)
(* them and what the sweeps of the next tick deposit                     *)

(* The amounts a chain moves: at, just below and above the threshold *)
ChainAmts == {SweepThreshold - 1, SweepThreshold, SweepThreshold + 1}

(* What try_transfer can return for a request *)
TransferOks == {try_transfer(script).ok : script \in Scripts}

NoFunds == [a \in Accts |-> 0]

SwpQuiet ==
    /\ kPc = "idle"
    /\ kFund = NoFunds
    /\ kTicks = 0
    /\ kDeposits = {}

SwpInit == SwpQuiet

(* Lines 206-214 of rebalance/services.py: a call of rebalance_once *)
SweepTickStart ==
    /\ kPc = "idle"
    /\ kTicks < MaxSweepTicks
    /\ kTicks' = kTicks + 1
    /\ kDeposits' = {}
    /\ kPc' = "sweepA"
    /\ UNCHANGED kFund
    /\ UNCHANGED othersSwp

(* flow.py lines 107-141: BalanceSweeper.sweep of one account.  The      *)
(* balance read is the wallet's, or 0 when funding_usdt_balance gave up; *)
(* above the threshold one deposit of the balance read is submitted, and *)
(* it moves the funds if try_transfer returned ok.  rebalance_once       *)
(* ignores what sweep returns (lines 215-216)                            *)
SweepWallet ==
    /\ kPc \in {"sweepA", "sweepB"}
    /\ LET a == IF kPc = "sweepA" THEN "A" ELSE "B" IN
       \E bal \in {kFund[a], 0}, ok \in TransferOks :
          IF bal <= SweepThreshold
          THEN UNCHANGED <<kFund, kDeposits>>
          ELSE /\ kDeposits' = kDeposits \cup
                      {[account |-> a, amt |-> bal, ok |-> ok]}
               /\ kFund' = [kFund EXCEPT ![a] = IF ok THEN @ - bal ELSE @]
    /\ kPc' = IF kPc = "sweepA" THEN "sweepB" ELSE "decide"
    /\ UNCHANGED kTicks
    /\ UNCHANGED othersSwp

(* Lines 293-334 of rebalance/services.py: the decision of the tick: no  *)
(* transfer, or a chain                                                  *)
SweepTickDecision ==
    /\ kPc = "decide"
    /\ \/ kPc' = "idle"
       \/ kPc' = "chain"
    /\ UNCHANGED <<kFund, kTicks, kDeposits>>
    /\ UNCHANGED othersSwp

(* flow.py lines 71-104: the chain from s: the funds are in s's funding  *)
(* wallet after hop 1, in the other account's after hop 2 and in its     *)
(* trading account after hop 3; a hop that fails ends the chain          *)
SweepTickChain ==
    /\ kPc = "chain"
    /\ \E s \in Accts, w \in ChainAmts, oks \in [Hops -> TransferOks] :
          LET at == IF ~oks[1] THEN "none"
                    ELSE IF NextHop(1, oks[1]) = 0 \/ ~oks[2] THEN s
                    ELSE IF NextHop(2, oks[2]) = 0 \/ ~oks[3] THEN Other(s)
                    ELSE "none"
          IN  kFund' = [a \in Accts |-> IF a = at THEN kFund[a] + w
                                                 ELSE kFund[a]]
    /\ kPc' = "idle"
    /\ UNCHANGED <<kTicks, kDeposits>>
    /\ UNCHANGED othersSwp

-----------------------------------------------------------------------------
(* unwind_progress of the snapshot bus over the calls of                 *)
(* check_and_unwind                                                      *)

(* iteration = None of set_unwind_progress *)
NoIteration == 0

(* Line 10 of state.py; iteration 0 stands for a missing key *)
NoProgress == [in_progress |-> FALSE, iteration |-> NoIteration]

(* Lines 36-57 of state.py: in_progress is always written, iteration     *)
(* only when it is given                                                 *)
set_unwind_progress(bus, in_progress, iteration) ==
    [in_progress |-> in_progress,
     iteration |-> IF iteration # NoIteration THEN iteration
                                              ELSE bus.iteration]

PrgQuiet ==
    /\ gPc = "off"
    /\ gBus = NoProgress
    /\ gIter = 0
    /\ gCalls = 0
    /\ gLast = "none"

PrgInit ==
    /\ gPc = "idle"
    /\ gBus = NoProgress
    /\ gIter = 0
    /\ gCalls = 0
    /\ gLast = "none"

(* Lines 623-658 of unwind/services.py: rebalance_once calls             *)
(* check_and_unwind, which returns no_trigger or goes on to the unwind   *)
ProgressCheck ==
    /\ gPc = "idle"
    /\ gCalls < MaxProgressCalls
    /\ gCalls' = gCalls + 1
    /\ gIter' = 0
    /\ \E triggers \in BOOLEAN :
          IF ~triggers
          THEN /\ gBus' = set_unwind_progress(gBus, FALSE, NoIteration)
               /\ gLast' = "no_trigger"
               /\ gPc' = "idle"
          ELSE /\ gPc' = "fetch"
               /\ gLast' = "none"
               /\ UNCHANGED gBus
    /\ UNCHANGED othersPrg

(* Lines 706-747: an iteration fetches the summaries and the positions   *)
(* and publishes its progress                                            *)
ProgressIteration ==
    /\ gPc = "fetch"
    /\ gBus' = set_unwind_progress(gBus, TRUE, gIter + 1)
    /\ gPc' = "iter"
    /\ UNCHANGED <<gIter, gCalls, gLast>>
    /\ UNCHANGED othersPrg

(* Lines 748-862: the iteration ends the loop when both accounts have    *)
(* recovered, and is followed by the next one otherwise                  *)
ProgressIterationEnd ==
    /\ gPc = "iter"
    /\ \E recovered \in BOOLEAN :
          /\ ~recovered => gIter + 1 < MaxProgressIter
          /\ IF recovered
             THEN gPc' = "final" /\ UNCHANGED gIter
             ELSE gPc' = "fetch" /\ gIter' = gIter + 1
    /\ UNCHANGED <<gBus, gCalls, gLast>>
    /\ UNCHANGED othersPrg

(* Lines 864-918: the summary and the end of the progress *)
ProgressFinish ==
    /\ gPc = "final"
    /\ gBus' = set_unwind_progress(gBus, FALSE, NoIteration)
    /\ gLast' = "unwind_completed"
    /\ gPc' = "idle"
    /\ UNCHANGED <<gIter, gCalls>>
    /\ UNCHANGED othersPrg

(* Lines 262-263 of rebalance/services.py: an exception raised by        *)
(* check_and_unwind, at the fetches of an iteration (the client of       *)
(* trading_summary is built outside its try), at an order or at the      *)
(* final summary, is caught and logged by rebalance_once                 *)
ProgressRaise ==
    /\ gPc \in {"fetch", "iter", "final"}
    /\ gLast' = "raised"
    /\ gPc' = "idle"
    /\ UNCHANGED <<gBus, gIter, gCalls>>
    /\ UNCHANGED othersPrg

-----------------------------------------------------------------------------
(* One three-hop chain, submission by submission: TransferFlow.execute   *)
(* with build_req and the loop of try_transfer                           *)

(* The amounts rebalance_once computes, in units *)
ChainDecs == 1 .. MaxChainAmt

NoReq == [hop |-> 0, sig |-> 0, amt |-> 0]

ChnQuiet ==
    /\ hPc = "off"
    /\ hAmt = 0
    /\ hHop = 0
    /\ hAtt = 0
    /\ hSigs = 0
    /\ hReq = NoReq
    /\ hLog = <<>>

(* flow.py lines 22-25: execute is entered with amount_dec *)
ChnInit ==
    /\ hPc = "build"
    /\ hAmt \in ChainDecs
    /\ hHop = 1
    /\ hAtt = 0
    /\ hSigs = 0
    /\ hReq = NoReq
    /\ hLog = <<>>

(* A request signed again for every attempt *)
attempt_sig_Fresh(sig, att) == sig + att

(* Line 170 of rebalance/services.py: every pass of the loop submits     *)
(* the req try_transfer was handed                                       *)
attempt_sig(sig, att) == sig

(* flow.py lines 71, 81 and 90 with lines 107-162 of                     *)
(* rebalance/services.py: build_req signs the request of the hop, with a *)
(* nonce and an expiration of its own, for amt_str                       *)
ChainSign ==
    /\ hPc = "build"
    /\ hSigs' = hSigs + 1
    /\ hReq' = [hop |-> hHop, sig |-> hSigs + 1, amt |-> Fmt6(hAmt)]
    /\ hAtt' = 0
    /\ hPc' = "try"
    /\ UNCHANGED <<hAmt, hHop, hLog>>
    /\ UNCHANGED othersChn

(* Lines 164-197 of rebalance/services.py, one pass of the loop: the     *)
(* request is submitted and the response decides; flow.py lines 74-98:   *)
(* the next hop after ok, the end of the chain otherwise                 *)
ChainSubmit ==
    /\ hPc = "try"
    /\ \E resp \in Resp :
          LET out == TryStep(resp, hAtt)
              nxt == NextHop(hHop, out = "ok")
          IN  /\ hLog' = Append(hLog,
                     [hop |-> hReq.hop, sig |-> attempt_sig(hReq.sig, hAtt),
                      amt |-> hReq.amt, ok |-> (out = "ok")])
              /\ IF out = "retry"
                 THEN /\ hAtt' = hAtt + 1
                      /\ UNCHANGED <<hPc, hHop>>
                 ELSE /\ hAtt' = 0
                      /\ hHop' = nxt
                      /\ hPc' = IF nxt # 0 THEN "build" ELSE "done"
    /\ UNCHANGED <<hAmt, hSigs, hReq>>
    /\ UNCHANGED othersChn

-----------------------------------------------------------------------------
(* The bot state file as the polling worker writes it and as             *)
(* _heartbeat_stale reads it                                             *)

(* The state file: the fields it holds; "none" is a missing chat_id *)
NoFile == [chat_id |-> "none", heartbeat_ts |-> FALSE]

StfQuiet ==
    /\ fPc = "off"
    /\ fEnv = "none"
    /\ fFile = NoFile
    /\ fPending = 0
    /\ fBeatWritten = FALSE
    /\ fMissed = FALSE

(* Lines 592-603 of telegram_bot.py: the worker starts; no state file *)
StfInit ==
    /\ fPc = "poll"
    /\ fEnv \in ChatIds \cup {"none"}
    /\ fFile = NoFile
    /\ fPending = 0
    /\ fBeatWritten = FALSE
    /\ fMissed = FALSE

(* Lines 120-129: _save_chat_id writes a file that holds the chat id     *)
(* and nothing else                                                      *)
save_chat_id(file, cid) == [chat_id |-> cid, heartbeat_ts |-> FALSE]

(* Lines 143-151: _save_state reads the file, updates the fields it is   *)
(* given and writes it back                                              *)
save_state(file, cid) == [chat_id |-> cid, heartbeat_ts |-> TRUE]

(* Lines 99-117: _get_chat_id with no chat_id in the configuration *)
file_chat_id(env, file) == IF env # "none" THEN env ELSE file.chat_id

(* Lines 604-613: getUpdates returns a batch *)
FilePoll ==
    /\ fPc = "poll"
    /\ fPending' \in 0 .. MaxFileBatch
    /\ fPc' = "batch"
    /\ UNCHANGED <<fEnv, fFile, fBeatWritten, fMissed>>
    /\ UNCHANGED othersStf

(* Lines 614-655: one update of the batch: the chat id of a message or a *)
(* callback query of an allowed chat is saved; the status is then        *)
(* computed and sent                                                     *)
FileUpdate ==
    /\ fPc = "batch"
    /\ fPending > 0
    /\ fPending' = fPending - 1
    /\ \E cid \in ChatIds \cup {"none"} :
          IF cid # "none" /\ ~(fEnv # "none" /\ cid # fEnv)
          THEN fFile' = save_chat_id(fFile, cid)
          ELSE UNCHANGED fFile
    /\ UNCHANGED <<fPc, fEnv, fBeatWritten, fMissed>>
    /\ UNCHANGED othersStf

(* Lines 656-660: the heartbeat at the end of the batch; a write that    *)
(* fails is swallowed by _save_state                                     *)
FileBatchEnd ==
    /\ fPc = "batch"
    /\ fPending = 0
    /\ \E ok \in BOOLEAN :
          IF ok
          THEN /\ fFile' = save_state(fFile, file_chat_id(fEnv, fFile))
               /\ fBeatWritten' = TRUE
          ELSE UNCHANGED <<fFile, fBeatWritten>>
    /\ fPc' = "poll"
    /\ UNCHANGED <<fEnv, fPending, fMissed>>
    /\ UNCHANGED othersStf

(* Lines 154-162: _heartbeat_stale, as the watchdog (line 690) and       *)
(* _acquire_lock (line 731) call it, finds no heartbeat_ts and returns   *)
(* True                                                                  *)
FileHeartbeatCheck ==
    /\ fPc \in {"poll", "batch"}
    /\ fBeatWritten
    /\ ~fFile.heartbeat_ts
    /\ fMissed' = TRUE
    /\ UNCHANGED <<fPc, fEnv, fFile, fPending, fBeatWritten>>
    /\ UNCHANGED othersStf

Init == RebInit /\ OrdQuiet /\ UnwQuiet /\ FnQuiet /\ RunInit /\ SupQuiet /\ PollQuiet /\ SnapQuiet /\ AlertQuiet /\ AvailQuiet /\ SwpQuiet /\ PrgQuiet /\ ChnQuiet /\ StfQuiet

Next ==
    \/ TickStart
    \/ Sweep
    \/ Observe
    \/ UnwindCheck
    \/ Refresh
    \/ ZeroGuard
    \/ Gate
    \/ Decide
    \/ ExecuteStart
    \/ HopCall
    \/ Report

Spec == Init /\ [][Next]_vars

(* The order builder on its own *)
InitOrder == RebQuiet /\ OrdInit /\ UnwQuiet /\ FnQuiet /\ RunInit /\ SupQuiet /\ PollQuiet /\ SnapQuiet /\ AlertQuiet /\ AvailQuiet /\ SwpQuiet /\ PrgQuiet /\ ChnQuiet /\ StfQuiet

NextOrder == ExecuteUnwindFixedSize

SpecOrder == InitOrder /\ [][NextOrder]_vars

(* The unwind loop on its own *)
InitUnwind == RebQuiet /\ OrdQuiet /\ UnwInit /\ FnQuiet /\ RunInit /\ SupQuiet /\ PollQuiet /\ SnapQuiet /\ AlertQuiet /\ AvailQuiet /\ SwpQuiet /\ PrgQuiet /\ ChnQuiet /\ StfQuiet

NextUnwind ==
    \/ UnwStart
    \/ UnwFetch
    \/ UnwMismatch
    \/ UnwIterate
    \/ UnwOrderPair
    \/ UnwSleep
    \/ UnwFinish

SpecUnwind == InitUnwind /\ [][NextUnwind]_vars

(* The margin functions on their own *)
InitMargin == RebQuiet /\ OrdQuiet /\ UnwQuiet /\ FnInit /\ RunInit /\ SupQuiet /\ PollQuiet /\ SnapQuiet /\ AlertQuiet /\ AvailQuiet /\ SwpQuiet /\ PrgQuiet /\ ChnQuiet /\ StfQuiet

NextMargin == EvaluateMargins

SpecMargin == InitMargin /\ [][NextMargin]_vars

(* Lines 264-376 of rebalance/services.py: the action rebalance_once     *)
(* returns on the observations o of both accounts, read again unchanged  *)
(* by the zero-equity guard, with the outcome ok of the chain            *)
rebalance_action(o, trig, ok) ==
    LET d == o["A"].eq - o["B"].eq
        s == SourceOf(d)
        max_by_mm == o[s].eq - (o[s].mm * 2)
        transfer_amt == TransferAmt(d, o[s].avail, o[s].eq, o[s].mm)
    IN  IF o["A"].eq = 0 \/ o["B"].eq = 0 THEN "blocked_zero_equity"
        ELSE IF GateNoop(d, trig) THEN "noop"
        ELSE IF Blocked(max_by_mm, transfer_amt) # "none"
        THEN Blocked(max_by_mm, transfer_amt)
        ELSE ReportedAction(ok, [h \in Hops |-> ok])

(* The observations two calls in a row are given *)
TwiceInit ==
    /\ fnPc = "twice"
    /\ fnIn \in [obs : [Accts -> Obs], trigger : TriggerVals]
    /\ fnOut = <<>>

(* Lines 206-376: a call of rebalance_once; the exchange reports the     *)
(* same observations to every call                                       *)
RebalanceOnce ==
    /\ fnPc = "twice"
    /\ Len(fnOut) < MaxRepeat
    /\ \E ok \in BOOLEAN :
          fnOut' = Append(fnOut, rebalance_action(fnIn.obs, fnIn.trigger, ok))
    /\ UNCHANGED <<fnPc, fnIn>>
    /\ UNCHANGED othersFn

(* rebalance_once called again on the same observations *)
InitTwice ==
    RebQuiet /\ OrdQuiet /\ UnwQuiet /\ TwiceInit /\ RunInit /\ SupQuiet /\ PollQuiet /\ SnapQuiet /\ AlertQuiet /\ AvailQuiet /\ SwpQuiet /\ PrgQuiet /\ ChnQuiet /\ StfQuiet

NextTwice == RebalanceOnce

SpecTwice == InitTwice /\ [][NextTwice]_vars

(* One matched pair of an unwind iteration: the sizes of the two        *)
(* positions, the ratio of the iteration, dry_run, the instrument as the *)
(* exchange describes it and the answer each account's order builder     *)
(* gets from get_instrument_v1                                           *)
PairSizes == {-MaxSize, -PairSmall, PairSmall, MaxSize}
PairRatios == {Frac(1, 10), Frac(1, 2), Frac(1, 1)}
PairInputs == [size1 : PairSizes, size2 : PairSizes, ratio : PairRatios,
               dry_run : BOOLEAN, base_decimals : BaseDecimals,
               min_size : {0, PairMinSize},
               answer1 : InstAnswers, answer2 : InstAnswers]

(* An alert for every order attempt of a live run *)
alerts_order_Every(dry, res) == ~dry

(* Line 848: if not dry_run and not result.get("success") *)
alerts_order(dry, res) == ~dry /\ ~res.success

(* Lines 823-859 of unwind/services.py: the two orders of a pair and the *)
(* unwind_order alerts; unwind_size = base_size * unwind_ratio is        *)
(* rounded down to a whole step by the builder, so its whole atoms       *)
(* decide                                                                *)
unwind_pair(in, http1, http2) ==
    LET base_size == Min2(Abs(in.size1), Abs(in.size2))
        num == base_size * in.ratio.num
        fixed == num \div in.ratio.den
        inst1 == [answer |-> in.answer1, base_decimals |-> in.base_decimals,
                  min_size |-> in.min_size]
        inst2 == [answer |-> in.answer2, base_decimals |-> in.base_decimals,
                  min_size |-> in.min_size]
        result1 == execute_unwind_fixed_size(
                       [account |-> "A", size |-> in.size1], fixed,
                       in.dry_run, inst1, http1)
        result2 == execute_unwind_fixed_size(
                       [account |-> "B", size |-> in.size2], fixed,
                       in.dry_run, inst2, http2)
        res == [a \in Accts |-> IF a = "A" THEN result1 ELSE result2]
    IN  IF num <= 0
        THEN [attempted |-> FALSE, res |-> [a \in Accts |-> NoResult],
              alerts |-> {}]
        ELSE [attempted |-> TRUE, res |-> res,
              alerts |-> {a \in Accts : alerts_order(in.dry_run, res[a])}]

PairInit ==
    /\ fnPc = "pair"
    /\ fnIn \in PairInputs
    /\ fnOut = [attempted |-> FALSE, res |-> [a \in Accts |-> NoResult],
                alerts |-> {}]

(* Lines 823-859: the pair is unwound *)
UnwindPair ==
    /\ fnPc = "pair"
    /\ \E http1 \in HttpOutcomes, http2 \in HttpOutcomes :
          fnOut' = unwind_pair(fnIn, http1, http2)
    /\ fnPc' = "paired"
    /\ UNCHANGED fnIn
    /\ UNCHANGED othersFn

(* One matched pair of an unwind iteration on its own *)
InitPair ==
    /\ RebQuiet /\ OrdQuiet /\ UnwQuiet /\ PairInit /\ RunInit /\ SupQuiet /\ ChnQuiet /\ StfQuiet
    /\ PollQuiet /\ SnapQuiet /\ AlertQuiet /\ AvailQuiet /\ SwpQuiet /\ PrgQuiet

NextPair == UnwindPair

SpecPair == InitPair /\ [][NextPair]_vars

(* try_transfer on its own *)
InitTry ==
    RebQuiet /\ OrdQuiet /\ UnwQuiet /\ TryInit /\ RunInit /\ SupQuiet /\ PollQuiet /\ SnapQuiet /\ AlertQuiet /\ AvailQuiet /\ SwpQuiet /\ PrgQuiet /\ ChnQuiet /\ StfQuiet

NextTry == TryTransfer

SpecTry == InitTry /\ [][NextTry]_vars

(* The fetches with retries on their own *)
InitFetch ==
    RebQuiet /\ OrdQuiet /\ UnwQuiet /\ FetchInit /\ RunInit /\ SupQuiet /\ PollQuiet /\ SnapQuiet /\ AlertQuiet /\ AvailQuiet /\ SwpQuiet /\ PrgQuiet /\ ChnQuiet /\ StfQuiet

NextFetch == Fetch

SpecFetch == InitFetch /\ [][NextFetch]_vars

(* An unwind that runs for real inside the first tick of the loop thread, *)
(* and a stop requested at any moment of it                               *)
InitStop ==
    /\ RebQuiet /\ OrdQuiet /\ UnwInit /\ FnQuiet /\ RunInTick /\ SupQuiet /\ PollQuiet /\ SnapQuiet /\ AlertQuiet /\ AvailQuiet /\ SwpQuiet /\ PrgQuiet /\ ChnQuiet /\ StfQuiet
    /\ uCfg = [enabled |-> TRUE, maxIterations |-> max_iterations]
    /\ ~uDryRun
    /\ ~uProgress

NextStop ==
    \/ UnwStart
    \/ UnwFetch
    \/ UnwMismatch
    \/ UnwIterate
    \/ UnwOrderPair
    \/ UnwSleep
    \/ UnwFinish
    \/ RequestStop

SpecStop == InitStop /\ [][NextStop]_vars

(* The runner and its loop thread *)
InitRunner == RebQuiet /\ OrdQuiet /\ UnwQuiet /\ FnQuiet /\ RunInit /\ SupQuiet /\ PollQuiet /\ SnapQuiet /\ AlertQuiet /\ AvailQuiet /\ SwpQuiet /\ PrgQuiet /\ ChnQuiet /\ StfQuiet

(* The steps of the loop thread *)
RunThread == RunSetup \/ LoopCheck \/ Tick \/ Wait \/ LoopExit

NextRunner ==
    \/ Start
    \/ RunSetup
    \/ LoopCheck
    \/ Tick
    \/ Wait
    \/ LoopExit
    \/ RequestStop
    \/ Stop

SpecRunner == InitRunner /\ [][NextRunner]_vars

(* The loop thread is scheduled, and rebalance_once and the wait return *)
SpecRunnerFair == SpecRunner /\ WF_vars(RunThread)

(* The runner under any interleaving of start, request_stop and stop *)
NextRestart ==
    \/ Start
    \/ Restart
    \/ RunSetup
    \/ LoopCheck
    \/ Tick
    \/ Wait
    \/ LoopExit
    \/ PrevThread
    \/ RequestStop
    \/ Stop

SpecRestart == InitRunner /\ [][NextRestart]_vars

(* The bot supervisor of one process *)
InitBot == RebQuiet /\ OrdQuiet /\ UnwQuiet /\ FnQuiet /\ RunInit /\ SupInit /\ PollQuiet /\ SnapQuiet /\ AlertQuiet /\ AvailQuiet /\ SwpQuiet /\ PrgQuiet /\ ChnQuiet /\ StfQuiet

(* The steps of the watchdog thread *)
WatchdogThread == WatchdogCheck \/ WatchdogRestart

NextBot ==
    \/ StartBotDaemon
    \/ StopBot
    \/ WorkerIterate
    \/ WorkerSaveFail
    \/ WorkerMessage
    \/ WorkerBatchEnd
    \/ WorkerStall
    \/ WorkerResume
    \/ WorkerCrash
    \/ OldWorkerIterate
    \/ OldWorkerMessage
    \/ OldWorkerBatchEnd
    \/ OldWorkerResume
    \/ HeartbeatAges
    \/ WatchdogCheck
    \/ WatchdogRestart

SpecBot == InitBot /\ [][NextBot]_vars

(* The snapshot bus, the ticks that write it and the views *)
InitSnap ==
    /\ RebQuiet /\ OrdQuiet /\ UnwQuiet /\ FnQuiet /\ RunInit /\ SupQuiet /\ AlertQuiet /\ AvailQuiet /\ SwpQuiet /\ PrgQuiet /\ ChnQuiet /\ StfQuiet
    /\ PollQuiet /\ SnapInit

NextSnap == SnapTickStart \/ SnapUnwindIteration \/ SnapTickEnd \/ SnapView

SpecSnap == InitSnap /\ [][NextSnap]_vars

(* The bot state file *)
InitStateFile ==
    /\ RebQuiet /\ OrdQuiet /\ UnwQuiet /\ FnQuiet /\ RunInit /\ SupQuiet
    /\ PollQuiet /\ SnapQuiet /\ AlertQuiet /\ AvailQuiet /\ SwpQuiet /\ PrgQuiet
    /\ ChnQuiet /\ StfInit

NextStateFile == FilePoll \/ FileUpdate \/ FileBatchEnd \/ FileHeartbeatCheck

SpecStateFile == InitStateFile /\ [][NextStateFile]_vars

(* One three-hop chain *)
InitChain ==
    /\ RebQuiet /\ OrdQuiet /\ UnwQuiet /\ FnQuiet /\ RunInit /\ SupQuiet /\ StfQuiet
    /\ PollQuiet /\ SnapQuiet /\ AlertQuiet /\ AvailQuiet /\ SwpQuiet /\ PrgQuiet
    /\ ChnInit

NextChain == ChainSign \/ ChainSubmit

SpecChain == InitChain /\ [][NextChain]_vars

(* The unwind progress over the calls of check_and_unwind *)
InitProgress ==
    /\ RebQuiet /\ OrdQuiet /\ UnwQuiet /\ FnQuiet /\ RunInit /\ SupQuiet /\ ChnQuiet /\ StfQuiet
    /\ PollQuiet /\ SnapQuiet /\ AlertQuiet /\ AvailQuiet /\ SwpQuiet /\ PrgInit

NextProgress ==
    \/ ProgressCheck
    \/ ProgressIteration
    \/ ProgressIterationEnd
    \/ ProgressFinish
    \/ ProgressRaise

SpecProgress == InitProgress /\ [][NextProgress]_vars

(* The funding wallets over the ticks *)
InitSweep ==
    /\ RebQuiet /\ OrdQuiet /\ UnwQuiet /\ FnQuiet /\ RunInit /\ SupQuiet /\ PrgQuiet /\ ChnQuiet /\ StfQuiet
    /\ PollQuiet /\ SnapQuiet /\ AlertQuiet /\ AvailQuiet /\ SwpInit

NextSweep == SweepTickStart \/ SweepWallet \/ SweepTickDecision \/ SweepTickChain

SpecSweep == InitSweep /\ [][NextSweep]_vars

(* The availability alerts of the ticks *)
InitAvail ==
    /\ RebQuiet /\ OrdQuiet /\ UnwQuiet /\ FnQuiet /\ RunInit /\ SupQuiet /\ SwpQuiet /\ PrgQuiet /\ ChnQuiet /\ StfQuiet
    /\ PollQuiet /\ SnapQuiet /\ AlertQuiet /\ AvailInit

NextAvail == AvailabilityCheck \/ ClockAdvances

SpecAvail == InitAvail /\ [][NextAvail]_vars

(* The rebalance events and their alerts *)
InitAlert ==
    /\ RebQuiet /\ OrdQuiet /\ UnwQuiet /\ FnQuiet /\ RunInit /\ SupQuiet /\ AvailQuiet /\ SwpQuiet /\ PrgQuiet /\ ChnQuiet /\ StfQuiet
    /\ PollQuiet /\ SnapQuiet /\ AlertInit

NextAlert == DispatchRebalanceEvent

SpecAlert == InitAlert /\ [][NextAlert]_vars

(* The polling loop of the bot and its updates *)
InitPoll ==
    RebQuiet /\ OrdQuiet /\ UnwQuiet /\ FnQuiet /\ RunInit /\ SupQuiet /\ PollInit /\ SnapQuiet /\ AlertQuiet /\ AvailQuiet /\ SwpQuiet /\ PrgQuiet /\ ChnQuiet /\ StfQuiet

NextPoll == PollBatch \/ HandleUpdate \/ BatchEnd

SpecPoll == InitPoll /\ [][NextPoll]_vars

(* The watchdog thread and the polling threads are scheduled: a worker   *)
(* that is not held up ends its iteration or its batch; and time passes  *)
SpecBotFair ==
    SpecBot /\ WF_vars(WatchdogThread) /\ WF_vars(WorkerIterate)
            /\ WF_vars(WorkerBatchEnd) /\ WF_vars(OldWorkerIterate)
            /\ WF_vars(OldWorkerBatchEnd) /\ WF_vars(HeartbeatAges)

-----------------------------------------------------------------------------
(* Properties of the rebalance engine, checked under Spec *)

ChainPcs == {"chain", "post"}
ChainRan == pc \in ChainPcs \/ action \in {"executed", "failed"}

(* C1: the requests of a chain are issued strictly in the order internal   *)
(* (source trading -> source funding), funding-to-funding (source funding  *)
(* -> destination funding), deposit (destination funding -> destination    *)
(* trading); hop N+1 is issued only after hop N has returned success; once *)
(* a hop has failed no later hop and no reversing transfer is issued.      *)
C1_HopsInOrder ==
    /\ Len(reqLog) <= 3
    /\ \A i \in 1..Len(reqLog) :
          /\ reqLog[i].hop = i
          /\ i = 1 => /\ reqLog[i].frm = <<src, "trading">>
                      /\ reqLog[i].to = <<src, "funding">>
          /\ i = 2 => /\ reqLog[i].frm = <<src, "funding">>
                      /\ reqLog[i].to = <<Other(src), "funding">>
          /\ i = 3 => /\ reqLog[i].frm = <<Other(src), "funding">>
                      /\ reqLog[i].to = <<Other(src), "trading">>
          /\ i > 1 => hopRes[i - 1] = "ok"
    /\ \A h \in Hops :
          /\ hopRes[h] # "none" => Len(reqLog) >= h
          /\ hopRes[h] = "fail" => /\ Len(reqLog) = h
                                   /\ hop = 0
                                   /\ \A k \in Hops : k > h => hopRes[k] = "none"

C1_Witness ==
    /\ pc = "done"
    /\ hopRes[1] = "ok" /\ hopRes[2] = "fail"
    /\ Len(reqLog) = 2

(* C2: whenever rebalance_once starts a chain, the amount handed to it is  *)
(* min(|eq_A - eq_B|/2, src_available, src_equity - 2*src_maint_margin),   *)
(* src being the account with the larger equity, and it is > 0; it never   *)
(* exceeds the source's available balance or its equity minus twice its    *)
(* maintenance margin.                                                     *)
C2_ChainAmount ==
    /\ pc = "decided" =>
          LET needed2 == Abs(eq["A"] - eq["B"])
              cap == eq[src] - 2 * mm[src]
          IN  /\ src \in Accts
              /\ eq[src] > eq[Other(src)]
              /\ amt > 0
              /\ 2 * amt <= needed2 /\ amt <= avail[src] /\ amt <= cap
              /\ 2 * amt = needed2 \/ amt = avail[src] \/ amt = cap
    /\ ChainRan => amountDec = amt /\ amt > 0
    /\ pc \in ChainPcs /\ hop # 0 => pc = "chain"

C2_Witness ==
    /\ pc = "decided"
    /\ amt = avail[src]
    /\ 2 * amt < Abs(eq["A"] - eq["B"])
    /\ amt < eq[src] - 2 * mm[src]

(* C3: for every rebalance_once that reports a successful transfer, with   *)
(* the equities changed only by the amount on the wire, the gap after is   *)
(* no larger than the gap before, and the funds moved from the account     *)
(* with the larger equity.                                                 *)
C3_GapNotWidened ==
    (pc = "done" /\ action = "executed") =>
        LET t == reqLog[1].amt
            post == IF src = "A" THEN delta - 2 * t ELSE delta + 2 * t
        IN  /\ \A i \in 1..Len(reqLog) : reqLog[i].amt = t
            /\ (src = "A") = (delta > 0)
            /\ Abs(post) <= Abs(delta)

C3_Witness ==
    /\ pc = "done" /\ action = "executed"
    /\ reqLog[1].amt > amountDec

(* C4: if at the trigger gate |eq_A - eq_B| <= trigger (both equities      *)
(* non-zero) the call returns noop and issues no cross-account transfer    *)
(* request; a chain is started only when |eq_A - eq_B| > trigger.          *)
C4_TriggerGate ==
    /\ action = "noop" =>
          /\ pc = "done"
          /\ eq["A"] # 0 /\ eq["B"] # 0
          /\ delta = eq["A"] - eq["B"]
          /\ Abs(delta) <= trigger
          /\ reqLog = <<>> /\ hop = 0
    /\ pc \in {"decide", "decided"} =>
          /\ delta = eq["A"] - eq["B"]
          /\ Abs(delta) > trigger
    /\ (ChainRan \/ reqLog # <<>>) => Abs(delta) > trigger

C4_Witness ==
    /\ pc = "done" /\ action = "noop"
    /\ Abs(eq["A"] - eq["B"]) = trigger

C6_ZeroEquityGuard ==
    /\ guardReads <= 1
    /\ action = "blocked_zero_equity" =>
          /\ pc = "done"
          /\ guardReads = 1
          /\ eq["A"] = 0 \/ eq["B"] = 0
          /\ reqLog = <<>> /\ hop = 0
          /\ ("zero_equity" \in alerts) <=> ((eq["A"] = 0) # (eq["B"] = 0))
    /\ "zero_equity" \in alerts => action = "blocked_zero_equity"
    /\ pc \in {"gate", "decide", "decided"} => eq["A"] # 0 /\ eq["B"] # 0
    /\ ChainRan => delta # 0

C6_Witness ==
    /\ action = "blocked_zero_equity"
    /\ "zero_equity" \in alerts
    /\ eq["A"] = 0 /\ eq["B"] # 0

C6_WitnessRecovered ==
    /\ pc = "decided"
    /\ guardReads = 1

(* C7: rebalance_once reports action=executed only if all three hop        *)
(* results carry ack=true.                                                 *)
C7_ExecutedOnlyIfAcked ==
    action = "executed" => hopAck[1] /\ hopAck[2] /\ hopAck[3]

-----------------------------------------------------------------------------
(* Properties of the order builder, checked under SpecOrder *)

EffectiveStep ==
    LET g == Pow10(AtomDecimals - instrument.base_decimals)
    IN  IF instrument.min_size > 0 /\ instrument.min_size > g
        THEN instrument.min_size ELSE g

EffectiveMinSize ==
    IF instrument.min_size > 0 THEN instrument.min_size
    ELSE Pow10(AtomDecimals - instrument.base_decimals)

ValidSizes ==
    {s \in 1..Abs(position.size) :
        s >= EffectiveMinSize /\ s % EffectiveStep = 0}

(* C8: every unwind order built has a size s with min_size <= s <=         *)
(* |current position size| and s a multiple of the instrument's effective  *)
(* size step; when no such size exists (position smaller than min_size, or *)
(* the size rounds to zero) no order is built or posted for the position.  *)
C8_OrderSize ==
    ordPc = "done" =>
        /\ result.order.built =>
              /\ result.order.size \in ValidSizes
              /\ result.order.size >= instrument.min_size
              /\ result.order.size <= Abs(position.size)
        /\ ValidSizes = {} => ~result.order.built
        /\ result.posted => result.order.built
        /\ result.success /\ ~dry_run => result.posted

C8_Witness ==
    /\ ordPc = "done"
    /\ result.order.built
    /\ result.order.size > fixed_size
    /\ result.order.size < Abs(position.size)
    /\ instrument.min_size > Pow10(AtomDecimals - instrument.base_decimals)

(* C9: every order of the unwind engine is reduce-only, market and         *)
(* immediate-or-cancel, not post-only, with limit price 0 in the signed    *)
(* leg and no limit price in the payload; it buys iff the position's       *)
(* signed size is negative and sells iff it is positive.                   *)
C9_OrderShape ==
    (ordPc = "done" /\ result.order.built) =>
        LET o == result.order
        IN  /\ o.reduce_only /\ o.signed.reduceOnly
            /\ o.is_market /\ o.signed.isMarket
            /\ o.time_in_force = "IMMEDIATE_OR_CANCEL"
            /\ o.signed.timeInForce = 3
            /\ ~o.post_only /\ ~o.signed.postOnly
            /\ o.signed.limitPrice = 0 /\ o.limit_price = "None"
            /\ o.is_buying_asset = o.signed.isBuyingContract
            /\ o.is_buying_asset <=> position.size < 0
            /\ ~o.is_buying_asset <=> position.size > 0
            /\ o.sub_account_id = position.account

C9_Witness ==
    /\ ordPc = "done"
    /\ result.posted
    /\ result.order.is_buying_asset
    /\ position.size < 0

-----------------------------------------------------------------------------
(* Properties of the unwind loop, checked under SpecUnwind *)

(* C10: in every iteration the orders are attempted only for instruments   *)
(* held by both account A and account B in the iteration's snapshot and    *)
(* whose min(|notional_A|, |notional_B|) >= min_position_notional; none is *)
(* attempted for an instrument held by one account only or for a pair      *)
(* below the threshold.                                                    *)
C10_OnlyHedgedPairs ==
    \A k \in 1..Len(uAttempts) :
        LET a == uAttempts[k]
            pA == uPos["A"][a.instrument]
            pB == uPos["B"][a.instrument]
        IN  /\ pA.held /\ pB.held
            /\ Abs(pA.notional) >= MinNotional
            /\ Abs(pB.notional) >= MinNotional
            /\ a.position = uPos[a.account][a.instrument]

C10_Witness ==
    /\ uPc = "orders" /\ uBatch = <<>>
    /\ Len(uAttempts) = 2
    /\ uAttempts[1].instrument = "BTC"
    /\ uPos["A"]["ETH"].held /\ ~uPos["B"]["ETH"].held

C10_WitnessBelow ==
    /\ uPc = "orders" /\ uBatch = <<>>
    /\ Len(uAttempts) = 2
    /\ uAttempts[1].instrument = "ETH"
    /\ uPos["A"]["BTC"].held /\ uPos["B"]["BTC"].held
    /\ Abs(uPos["B"]["BTC"].notional) < MinNotional

(* ---- C11 ---- *)
(* eq > 0, mm > 0, and (mm/eq)*100 below 100 and at least trigger_pct *)
Triggers(o, trigger_pct) ==
    /\ o.eq > 0
    /\ o.mm > 0
    /\ o.mm * 100 < 100 * o.eq
    /\ o.mm * 100 >= trigger_pct * o.eq

(* C11: should_trigger(eq, mm, trigger_pct) is true iff eq > 0, mm > 0,   *)
(* (mm/eq)*100 < 100 and (mm/eq)*100 >= trigger_pct; an enabled           *)
(* check_and_unwind goes on to the unwind loop iff that holds for at      *)
(* least one account, and otherwise returns no_trigger having fetched no  *)
(* positions and placed no order                                          *)
C11_TriggerGate ==
    /\ uPc = "call"
          => /\ should_trigger(uArgs.o1.eq, uArgs.o1.mm, uArgs.trigger_pct)
                   <=> Triggers(uArgs.o1, uArgs.trigger_pct)
             /\ should_trigger(uArgs.o2.eq, uArgs.o2.mm, uArgs.trigger_pct)
                   <=> Triggers(uArgs.o2, uArgs.trigger_pct)
    /\ uPc = "fetch"
          => /\ uCfg.enabled
             /\ Triggers(uArgs.o1, uArgs.trigger_pct)
                   \/ Triggers(uArgs.o2, uArgs.trigger_pct)
    /\ (uPc = "done" /\ uCfg.enabled /\ uAction # "unwind_completed")
          => /\ uAction = "no_trigger"
             /\ ~Triggers(uArgs.o1, uArgs.trigger_pct)
             /\ ~Triggers(uArgs.o2, uArgs.trigger_pct)
             /\ uFetches = 0
             /\ uAttempts = <<>>
             /\ uIter = 0
             /\ uSent = NoneSent
    /\ (uFetches > 0 \/ uIter > 0 \/ uAttempts # <<>>)
          => uCfg.enabled /\ uSent.triggered = 1

(* Only the second account triggers, at exactly the threshold *)
C11_Witness ==
    /\ uPc = "fetch"
    /\ ~Triggers(uArgs.o1, uArgs.trigger_pct)
    /\ uArgs.o2.mm * 100 = uArgs.trigger_pct * uArgs.o2.eq
    /\ uArgs.o2.eq > 0

(* No trigger with an account at 100 per cent of margin usage *)
C11_WitnessNoTrigger ==
    /\ uPc = "done"
    /\ uCfg.enabled
    /\ uAction = "no_trigger"
    /\ uArgs.o1.eq > 0
    /\ uArgs.o1.mm = uArgs.o1.eq
    /\ uArgs.trigger_pct = TriggerPct

(* ---- C12 ---- *)
(* C12: whenever recovery_pct <= trigger_pct, no observation of an account *)
(* both triggers the unwind and counts as recovered: should_trigger        *)
(* implies not is_recovered, and is_recovered implies not should_trigger   *)
C12_TriggerExcludesRecovered ==
    (fnPc = "done" /\ fnIn.recovery_pct <= fnIn.trigger_pct)
        => /\ fnOut.trigger1 => ~fnOut.recovered1
           /\ fnOut.recovered1 => ~fnOut.trigger1
           /\ fnOut.trigger2 => ~fnOut.recovered2
           /\ fnOut.recovered2 => ~fnOut.trigger2

(* An account at exactly the common threshold triggers and is not recovered *)
C12_Witness ==
    /\ fnPc = "done"
    /\ fnIn.recovery_pct = fnIn.trigger_pct
    /\ fnIn.o1.eq > 0
    /\ fnIn.o1.mm * 100 = fnIn.trigger_pct * fnIn.o1.eq
    /\ fnOut.trigger1 /\ ~fnOut.recovered1

(* With recovery_pct above trigger_pct the two tests do overlap *)
C12_WitnessOverlap ==
    /\ fnPc = "done"
    /\ fnIn.recovery_pct > fnIn.trigger_pct
    /\ fnOut.trigger1 /\ fnOut.recovered1

(* ---- C13 ---- *)
FracEq(x, y) == x.num * y.den = y.num * x.den
FracLeq(x, y) == ~FracLess(y, x)
PctOf(o) == IF o.eq > 0 THEN Frac(o.mm * 100, o.eq) ELSE Frac(0, 1)
PctMax == FracMax(PctOf(fnIn.o1), PctOf(fnIn.o2))

(* (pct_max - recovery_pct) / (pct_max * target_iters), clamped to [0, 1] *)
ClampedExcess ==
    LET raw == Frac(PctMax.num - fnIn.recovery_pct * PctMax.den,
                    PctMax.num * TargetIters)
    IN  FracMax(Frac(0, 1), FracMin(Frac(1, 1), raw))

C13_WitnessNoCap ==
    /\ fnPc = "done"
    /\ fnIn.unwind_pct <= 0
    /\ fnOut.ratio.num > 0

(* ---- C14 ---- *)
(* C14: every triggered check_and_unwind call runs at most as many        *)
(* iterations as the configured unwind.maxIterations                      *)
C14_BoundedByConfigured ==
    uIter + (IF uPc = "orders" THEN 1 ELSE 0) <= uCfg.maxIterations

(* ---- C15 ---- *)
(* The refreshed observation of an account counts as recovered *)
Recovered(a) ==
    \/ uEq[a] <= 0
    \/ uMm[a] <= 0
    \/ uMm[a] * 100 < RecoveryPct * uEq[a]

ScoreGeq(i, j) ==
    (Abs(uPos["A"][i].unrealized_pnl) + Abs(uPos["B"][i].unrealized_pnl))
          * (Abs(uPos["A"][j].notional) + Abs(uPos["B"][j].notional))
       >= (Abs(uPos["A"][j].unrealized_pnl) + Abs(uPos["B"][j].unrealized_pnl))
          * (Abs(uPos["A"][i].notional) + Abs(uPos["B"][i].notional))

(* C16: within an iteration the matched pairs are processed in descending *)
(* order of score; for each pair the order of account A is issued before  *)
(* that of account B; all orders of an iteration are issued before its    *)
(* wait                                                                   *)
C16_OrderOfOrders ==
    /\ [](uPc = "orders"
            => /\ \A j \in DOMAIN uBatch, k \in DOMAIN uBatch :
                     j < k => ScoreGeq(uBatch[j], uBatch[k])
               /\ \A j \in DOMAIN uAttempts, k \in DOMAIN uBatch :
                     ScoreGeq(uAttempts[j].instrument, uBatch[k])
               /\ \A j \in DOMAIN uAttempts, k \in DOMAIN uAttempts :
                     j < k => ScoreGeq(uAttempts[j].instrument,
                                       uAttempts[k].instrument)
               /\ Len(uAttempts) % 2 = 0
               /\ \A k \in DOMAIN uAttempts :
                     k % 2 = 1
                        => /\ uAttempts[k].account = "A"
                           /\ uAttempts[k + 1].account = "B"
                           /\ uAttempts[k + 1].instrument
                                 = uAttempts[k].instrument)
    /\ [][/\ uSlept' # uSlept => (uPc = "orders" /\ uBatch = <<>>)
          /\ Len(uAttempts') > Len(uAttempts)
                => (uPc = "orders" /\ uSlept' = uSlept /\ uIter' = uIter)]_vars

(* Both pairs were unwound, ETH first although BTC is listed first; the  *)
(* score of ETH is strictly the higher                                   *)
C16_Witness ==
    /\ uPc = "orders" /\ uBatch = <<>>
    /\ Len(uAttempts) = 4
    /\ uAttempts[1].instrument = "ETH"
    /\ ~ScoreGeq("BTC", "ETH")

(* ---- C17 ---- *)
(* C17: when the unwind triggers and the first fetch finds an instrument  *)
(* held by only one account, exactly one hedge-mismatch warning is        *)
(* dispatched, listing every such instrument with has_a and has_b, and    *)
(* the loop is entered all the same; in an iteration whose matched set is *)
(* empty no order is placed; a triggered call that returns has dispatched *)
(* exactly one unwind_event(completed)                                    *)
C17_MismatchWarned ==
    /\ [](/\ uPc = "mismatch"
                => /\ \A i \in Insts :
                         uPos["A"][i].held # uPos["B"][i].held
                            <=> \E u \in uUnmatched : u.instrument = i
                   /\ \A u \in uUnmatched :
                         /\ u.has_a = uPos["A"][u.instrument].held
                         /\ u.has_b = uPos["B"][u.instrument].held
                   /\ uSent.mismatch = 0
          /\ (uPc = "iter" /\ uIter = 0)
                => /\ uSent.mismatch = (IF uUnmatched # {} THEN 1 ELSE 0)
                   /\ uSent.triggered = 1
          /\ uSent.mismatch <= 1
          /\ uSent.mismatch = 1 <=> "hedge_mismatch" \in uAlerts
          /\ (uPc = "orders"
                /\ \A i \in Insts : ~(uPos["A"][i].held /\ uPos["B"][i].held))
                => uBatch = <<>> /\ uAttempts = <<>>
          /\ (uPc = "done" /\ uSent.triggered = 1)
                => uSent.completed = 1 /\ uAction = "unwind_completed"
          /\ uPc # "done" => uSent.completed = 0)
    /\ [][/\ uPc = "mismatch" => uPc' = "iter"
          /\ uSent'.mismatch # uSent.mismatch => uPc = "mismatch"]_vars

(* After a warned mismatch the loop unwinds the pair that is hedged *)
C17_Witness ==
    /\ uSent.mismatch = 1
    /\ uPc = "orders"
    /\ Len(uAttempts) = 2

(* A warned mismatch, and an iteration with nothing matched *)
C17_WitnessEmpty ==
    /\ uSent.mismatch = 1
    /\ uPc = "orders"
    /\ \A i \in Insts : ~(uPos["A"][i].held /\ uPos["B"][i].held)
    /\ \E i \in Insts : uPos["A"][i].held

(* A call that warned of a mismatch has returned *)
C17_WitnessCompleted ==
    /\ uSent.mismatch = 1
    /\ uPc = "done"
    /\ uIter = 1

(* ---- C18 ---- *)
(* C18: if request_stop is issued while an unwind is in progress, the     *)
(* unwind finishes the iteration it is in and then starts no further      *)
(* iteration and places no further order                                  *)
C18_StopObserved ==
    (stop_event /\ rStopIter >= 0)
        => ~(uPc = "orders" /\ uIter > rStopIter)

(* ---- C19 ---- *)
(* C19: an exception raised by rebalance_once during a tick never ends    *)
(* the control loop: one warning is dispatched for it and the loop goes   *)
(* on to the interval wait and, unless a stop was requested, from there   *)
(* to the next tick; the loop ends only after a stop was requested        *)
C19_ErrorKeepsLoop ==
    /\ [](/\ rWarnings = rErrors
          /\ rPc \in {"exiting", "exited"} => stop_event)
    /\ [][/\ rPc = "tick" => rPc' \in {"tick", "wait"}
          /\ rErrors' # rErrors
                => /\ rErrors' = rErrors + 1
                   /\ rWarnings' = rWarnings + 1
                   /\ rPc = "tick" /\ rPc' = "wait"
          /\ (rPc = "wait" /\ ~stop_event) => rPc' \in {"wait", "loop"}
          /\ (rPc = "loop" /\ ~stop_event) => rPc' \in {"loop", "tick"}]_vars

(* The first tick raised, and the loop is in its second tick *)
C19_Witness ==
    /\ rPc = "tick"
    /\ rTicks = 2
    /\ rErrors = 1
    /\ rWarnings = 1
    /\ ~stop_event

(* ---- C20 ---- *)
(* C20: after request_stop on a started runner no new tick starts (the    *)
(* one that is executing may complete), a pending interval wait ends at   *)
(* once with the exit of the loop, and the loop thread eventually exits,  *)
(* having stopped the bot supervisor and written running = false to the   *)
(* runtime settings                                                       *)
C20_StopEndsLoop ==
    /\ [](/\ (stop_event /\ rPc # "new") => rTicks = rStopTicks
          /\ rPc = "exited"
                => /\ stop_event
                   /\ ~botRunning
                   /\ runtimeRunning = "false")
    /\ [][/\ (stop_event /\ rPc = "wait") => rPc' \in {"wait", "exiting"}
          /\ (stop_event /\ rPc = "loop") => rPc' \in {"loop", "exiting"}
          /\ (stop_event /\ rPc # "new") => stop_event']_vars
    /\ (stop_event /\ rPc # "new")
          ~> (rPc = "exited" /\ ~botRunning /\ runtimeRunning = "false")

(* The stop came during the second tick, and the thread has exited *)
C20_Witness ==
    /\ rPc = "exited"
    /\ stop_event
    /\ rStopTicks = 2
    /\ rTicks = 2
    /\ ~botRunning
    /\ runtimeRunning = "false"

(* ---- C21 ---- *)
(* C21: under any interleaving of start, request_stop and stop at most    *)
(* one loop thread of a RebalanceRunner is executing ticks: never are    *)
(* two threads inside rebalance_once at the same time                     *)
C21_OneLoopThread ==
    ~(rPrev = "tick" /\ rPc = "tick")

(* C22: a start_bot_daemon call made while an earlier call of the same   *)
(* process has started the supervisor, with no stop_bot in between,      *)
(* starts no thread and returns started = false: the polling workers and *)
(* the watchdog are the ones there were                                  *)
C22_SecondStartNoThread ==
    [][(bSupervised /\ bCalls' = bCalls + 1)
          => /\ bCur' = bCur
             /\ bOld' = bOld
             /\ bWd' = bWd
             /\ bLast'.started = FALSE
             /\ bLast'.launched = 0]_vars

C22_Witness == bSupervised /\ bLast.path = "already" /\ bWd = "wait"

(* The second call made while the watchdog holds the stop event set *)
C22_WitnessRestartWindow == bSupervised /\ bLast.path = "retry_ok"

(* C23: at most one polling worker is alive and polling: the thread the  *)
(* supervisor holds is never at its loop, with the stop event clear,     *)
(* while an earlier polling thread is at its loop too                    *)
C23_OnePollingWorker == ~(bCur = "loop" /\ "loop" \in bOld /\ ~bStop)

(* C24: a start_bot_daemon call that found the lock file present with a  *)
(* heartbeat older than 30 s, removed it and acquired the lock on its    *)
(* retry, has started the polling worker and the watchdog and returned   *)
(* started = true; a call that found the lock present with a fresh       *)
(* heartbeat has started nothing                                         *)
C24_StaleLockRetryStarts ==
    /\ (bLast.path = "retry_ok") => (bLast.started /\ bLast.launched = 2)
    /\ (bLast.path = "fresh") => (~bLast.started /\ bLast.launched = 0)

C25_WitnessCrash ==
    /\ bCalls = 1 /\ bSupervised /\ bWd = "wait" /\ bFaults = MaxFaults
    /\ bOld = {} /\ bCur = "loop" /\ bBeat = "fresh"

(* The update comes from a chat that differs from TELEGRAM_CHAT_ID *)
Foreign(u) == tEnv # "none" /\ u.cid \in ChatIds /\ u.cid # tEnv

(* C26: with TELEGRAM_CHAT_ID set, an update from another chat makes the *)
(* bot send no message, compute no status, answer no callback query and  *)
(* write no chat id: the step that handles it changes the offset only,   *)
(* which acknowledges its update_id, and every message sent goes to the  *)
(* chat of TELEGRAM_CHAT_ID                                              *)
C26_ForeignUpdateIgnored ==
    /\ [](\A u \in tStatus \cup tSaved \cup tAnswered : ~Foreign(u))
    /\ [](\A m \in tSent : ~Foreign(m.update) /\ (tEnv # "none" => m.to = tEnv))
    /\ [][(tHandled' = tHandled + 1 /\ Foreign(tLast'))
             => /\ UNCHANGED <<tStored, tSent, tStatus, tSaved, tAnswered>>
                /\ tLast'.update_id # 0 => tOffset' = tLast'.update_id + 1
                /\ tLast'.update_id = 0 => tOffset' = tOffset]_vars

(* An update of the operator's chat was answered with the status, and a  *)
(* later one of another chat, asking for the same, was acknowledged      *)
C26_Witness ==
    /\ tEnv = "A" /\ tHandled = 2 /\ tLast.cid = "B" /\ wants_status(tLast)
    /\ tLast.update_id = MaxUid /\ tOffset = MaxUid + 1
    /\ tSent # {} /\ tStatus # {} /\ tAnswered # {}
(* The responses after which try_transfer submits again *)
Retryable == {"exception", "busy"}

(* C27: a call of try_transfer submits at most 3 times; every submission *)
(* but its last met a transport exception or a business error with code  *)
(* 1006 or status 429; another business error ends the call with failure *)
(* at the submission that met it, a response that is no error ends it    *)
(* with success, and a third exception or busy error ends it with        *)
(* failure                                                               *)
C27_TransferRetries ==
    fnPc = "returned" =>
        /\ fnOut.sends \in 1 .. 3
        /\ \A k \in 1 .. (fnOut.sends - 1) : fnIn[k] \in Retryable
        /\ fnIn[fnOut.sends] \in Retryable => (fnOut.sends = 3 /\ ~fnOut.ok)
        /\ fnIn[fnOut.sends] = "error" => ~fnOut.ok
        /\ fnIn[fnOut.sends] \in {"ack", "noack"} => fnOut.ok
        /\ fnIn[1] = "error" => (fnOut.sends = 1 /\ ~fnOut.ok)
        /\ fnIn[1] \in {"ack", "noack"} => (fnOut.sends = 1 /\ fnOut.ok)

(* A busy error and an exception were retried, and the third submission  *)
(* met another business error                                            *)
C27_Witness ==
    /\ fnPc = "returned" /\ fnIn = <<"busy", "exception", "error">>
    /\ fnOut.sends = 3 /\ ~fnOut.ok

(* Another business error ended the call at once *)
C27_WitnessSingle ==
    /\ fnPc = "returned" /\ fnIn[1] = "error" /\ fnIn[2] = "ack"
    /\ fnOut.sends = 1 /\ ~fnOut.ok
(* C28: a fetch of the account summary or of the positions makes at most *)
(* 4 attempts, and when it returns the zero or empty default because the *)
(* fetch failed, the attempts are exhausted and exactly one warning      *)
(* retries_exhausted has been dispatched                                 *)
C28_DefaultAfterRetries ==
    fnPc = "fetched" =>
        /\ fnOut.attempts \in 1 .. SummaryAttempts
        /\ fnOut.default => (fnOut.attempts = SummaryAttempts /\ fnOut.warnings = 1)
        /\ ~fnOut.default => fnOut.warnings = 0
(* C29: after every completed tick the snapshot bus holds the time of    *)
(* that tick and a last_status built from its observations, and a view   *)
(* served from the bus between ticks reports the observations of the     *)
(* last tick                                                             *)
C29_SnapshotOfLastTick ==
    /\ (sPc = "idle" /\ sTick > 0)
          => (sLastCheck = sTick /\ sLastStatus = [tick |-> sTick, obs |-> sObs])
    /\ (sView.source = "snapshot" /\ sView.idle)
          => (sView.time = sView.tick /\ sView.obs = sView.last_obs)
(* C30: over any sequence of dispatch_rebalance_event calls, the n-th    *)
(* event that carries transfer_usdt or success is sent if and only if n  *)
(* is a multiple of 5, and a noop event is never sent and leaves the     *)
(* counter as it is                                                      *)
C30_EveryFifthSent ==
    /\ [](aSent = {n \in 1 .. aEvents : n % 5 = 0})
    /\ [](aCounter = aEvents)
    /\ [][aNoops' = aNoops + 1 => UNCHANGED <<aCounter, aSent>>]_vars

(* The fifth and the tenth transfer were sent, with noops in between *)
C30_Witness ==
    /\ aEvents = 11 /\ aNoops >= 2 /\ aSent = {5, 10} /\ aCounter = 11
    /\ aLast = "noop"
(* The time of the last alert sent for a label, 0 if there is none *)
LastSent(a) ==
    LET ts == {m.ts : m \in {x \in vSent : x.label = a}}
    IN  IF ts = {} THEN 0 ELSE CHOOSE t \in ts : \A u \in ts : u <= t

(* C31: two alerts sent for the same label are at least 120 s apart; an  *)
(* alert that is due for a label is suppressed exactly when the last     *)
(* alert sent for that same label is less than 120 s old, whatever was   *)
(* sent for the other label; a send that fails leaves the time of the    *)
(* label's last alert as it was; and an alert is attempted for an        *)
(* account only when its equity is positive and its available balance    *)
(* is below 20 percent of it                                             *)
C31_AvailabilityAlerts ==
    /\ [](\A m1 \in vSent, m2 \in vSent :
             (m1.label = m2.label /\ m1.ts < m2.ts) => m2.ts - m1.ts >= 120)
    /\ [](\A a \in Accts : vLast[a] = LastSent(a))
    /\ [](\A a \in Accts :
             vOutcome[a] # "none" => (vEq[a] > 0 /\ vAvail[a] * 100 < 20 * vEq[a]))
    /\ [][\A a \in Accts :
             /\ vOutcome'[a] = "suppressed" => vNow - LastSent(a) < 120
             /\ vOutcome'[a] \in {"sent", "failed"} => vNow - LastSent(a) >= 120
             /\ vOutcome'[a] = "failed" => vLast'[a] = vLast[a]]_vars

(* An alert of B was sent while A's window was open, A's was suppressed, *)
(* and an earlier send had failed without opening a window               *)
C31_Witness ==
    /\ vOutcome["A"] = "suppressed" /\ vOutcome["B"] = "sent"
    /\ vLast["A"] = vNow - TimeStep /\ vLast["B"] = vNow

(* A send that failed was followed by one sent within the 120 s *)
C31_WitnessFailed ==
    /\ vOutcome["A"] = "failed" /\ vLast["A"] = 0 /\ vNow > SuppressSeconds
(* C32: the second of two rebalance_once calls that are given the same   *)
(* observations returns noop                                             *)
C32_SecondCallNoop ==
    (fnPc = "twice" /\ Len(fnOut) >= 2) => fnOut[2] = "noop"
(* C33: when a tick of rebalance_once comes to its decision, its sweeps  *)
(* have deposited whatever an earlier failed chain left in a funding     *)
(* wallet: no funding wallet holds funds any more                        *)
C33_StrandedFundsSwept ==
    kPc = "decide" => \A a \in Accts : kFund[a] = 0
(* C34: while no check_and_unwind call is running - the last one ended   *)
(* by no_trigger, by completion or by an exception caught in             *)
(* rebalance_once, or none was made - in_progress of unwind_progress is  *)
(* false                                                                 *)
C34_NoProgressWhenEnded ==
    gPc = "idle" => ~gBus.in_progress
(* C35: in a dry run no order of a pair is posted to create_order, both  *)
(* attempts are recorded as successful and no unwind_order alert is      *)
(* dispatched; in a live run an unwind_order alert is dispatched for     *)
(* exactly the attempts that failed                                      *)
C35_DryRunAndAlerts ==
    (fnPc = "paired" /\ fnOut.attempted) =>
        /\ fnIn.dry_run =>
              /\ \A a \in Accts : ~fnOut.res[a].posted /\ ~fnOut.res[a].order.built
              /\ \A a \in Accts : fnOut.res[a].success
              /\ fnOut.alerts = {}
        /\ ~fnIn.dry_run =>
              fnOut.alerts = {a \in Accts : ~fnOut.res[a].success}

(* A live run in which the order of A was placed and that of B failed:   *)
(* one alert, for B                                                      *)
C35_Witness ==
    /\ fnPc = "paired" /\ fnOut.attempted /\ ~fnIn.dry_run
    /\ fnOut.res["A"].success /\ fnOut.res["A"].posted
    /\ ~fnOut.res["B"].success
    /\ fnOut.alerts = {"B"}

(* A dry run of a pair whose orders could not have been built *)
C35_WitnessDry ==
    /\ fnPc = "paired" /\ fnOut.attempted /\ fnIn.dry_run
    /\ fnIn.answer1 = "fetch_failed"
    /\ fnOut.res["A"].success /\ fnOut.alerts = {}
C37_BothSidesSameSize ==
    (/\ fnPc = "paired" /\ fnOut.attempted /\ ~fnIn.dry_run
     /\ fnIn.answer1 = "ok" /\ fnIn.answer2 = "ok"
     /\ fnOut.res["A"].order.built)
        => /\ fnOut.res["B"].order.built
           /\ fnOut.res["B"].order.size = fnOut.res["A"].order.size
(* C38: whenever the loop of check_and_unwind goes from one iteration   *)
(* on to the next, it has made the wait_seconds pause in between         *)
C38_PauseBetweenIterations ==
    [][(uIter' = uIter + 1 /\ uPc' = "iter") => uSlept' = uSlept + 1]_vars
(* C39: once the polling worker has written heartbeat_ts, the state     *)
(* file holds a heartbeat_ts field, and no _heartbeat_stale call made    *)
(* while the worker runs finds the field missing                         *)
C39_HeartbeatKept ==
    /\ fBeatWritten => fFile.heartbeat_ts
    /\ ~fMissed
(* C40: when stop_bot returns, the stop event of the polling workers is  *)
(* set and no polling loop is running that was started while stop_bot    *)
(* ran; so every polling worker ends at its next test of the event       *)
C40_StopStopsWorkers ==
    [][(~bWdStop /\ bWdStop') => bStop']_vars

=============================================================================
